---- MODULE Spec2Model ----
(***************************************************************************)
(* POS launcher: the Updater (check, download, apply, cleanup), the        *)
(* BackupManager (create_backup, downgrade) and the helpers of             *)
(* resources/utils.py they rest on, as state machines over a small file    *)
(* system, a process table and a release host.                             *)
(***************************************************************************)
EXTENDS Integers, Sequences, FiniteSets, TLC

(***************************************************************************)
(* Program constants                                                       *)
(***************************************************************************)
MAX_DOWNLOAD_RETRIES == 3

\* max_retries, the default of safe_delete and safe_rename
SAFE_MAX_RETRIES == 3

(***************************************************************************)
(* Bounds of the model                                                     *)
(***************************************************************************)
\* number of bytes of a complete release payload
PayloadLen == 3

\* DOWNLOAD_CHUNK_SIZE scaled down: bytes read per response.read
ChunkSize == 2

(***************************************************************************)
(* Strings as sequences of one-character strings                           *)
(***************************************************************************)
\* Optional values: None is the empty sequence, a value x is <<x>>
None == <<>>

Some(x) == <<x>>

Val(o) == o[1]

Digits == <<"0", "1", "2", "3", "4", "5", "6", "7", "8", "9">>

IsDigit(c) == \E i \in 1..10 : Digits[i] = c

DigitVal(c) == (CHOOSE i \in 1..10 : Digits[i] = c) - 1

IsSpace(c) == c = " "

RECURSIVE LStripSet(_, _)
\* str.lstrip(chars): drops every leading character that is in chars
LStripSet(s, chars) ==
    IF s # <<>> /\ Head(s) \in chars THEN LStripSet(Tail(s), chars) ELSE s

RECURSIVE RStripSet(_, _)
RStripSet(s, chars) ==
    IF s # <<>> /\ s[Len(s)] \in chars
    THEN RStripSet(SubSeq(s, 1, Len(s) - 1), chars)
    ELSE s

\* str.strip(): drops leading and trailing white space
Strip(s) == RStripSet(LStripSet(s, {" "}), {" "})

RECURSIVE SplitDot(_, _, _)
\* str.split('.'): acc holds the parts closed so far, cur the part being read
SplitDot(s, acc, cur) ==
    IF s = <<>> THEN Append(acc, cur)
    ELSE IF Head(s) = "." THEN SplitDot(Tail(s), Append(acc, cur), <<>>)
    ELSE SplitDot(Tail(s), acc, Append(cur, Head(s)))

Split(s) == SplitDot(s, <<>>, <<>>)

RECURSIVE DigitsVal(_, _)
DigitsVal(s, acc) ==
    IF s = <<>> THEN acc ELSE DigitsVal(Tail(s), 10 * acc + DigitVal(Head(s)))

AllDigits(s) == s # <<>> /\ \A i \in 1..Len(s) : IsDigit(s[i])

\* int(p): white space around, one optional sign, then decimal digits;
\* anything else is a ValueError (ok = FALSE)
PyInt(p) ==
    LET t == Strip(p)
        signed == t # <<>> /\ Head(t) \in {"+", "-"}
        body == IF signed THEN Tail(t) ELSE t
    IN  IF AllDigits(body)
        THEN [ok |-> TRUE,
              v |-> IF signed /\ Head(t) = "-" THEN 0 - DigitsVal(body, 0)
                    ELSE DigitsVal(body, 0)]
        ELSE [ok |-> FALSE, v |-> 0]

\* Updater._parse_version: ok = FALSE stands for the ValueError
UpdaterParseVersion(version_str) ==
    IF version_str = <<>> THEN [ok |-> FALSE, v |-> <<0, 0, 0>>]
    ELSE
        LET clean == LStripSet(Strip(version_str), {"v", "V"})
            parts0 == Split(clean)
            parts == IF Len(parts0) < 3
                     THEN parts0 \o [i \in 1..(3 - Len(parts0)) |-> <<"0">>]
                     ELSE parts0
            ints == [i \in 1..3 |-> PyInt(parts[i])]
        IN  IF \A i \in 1..3 : ints[i].ok
            THEN [ok |-> TRUE, v |-> <<ints[1].v, ints[2].v, ints[3].v>>]
            ELSE [ok |-> FALSE, v |-> <<0, 0, 0>>]

\* a comparison that also answers True for equal triples
TupleGreaterOrEqual(a, b) ==
    \/ a[1] > b[1]
    \/ a[1] = b[1] /\ a[2] > b[2]
    \/ a[1] = b[1] /\ a[2] = b[2] /\ a[3] >= b[3]

\* tuple comparison a > b on triples
TupleGreater(a, b) ==
    \/ a[1] > b[1]
    \/ a[1] = b[1] /\ a[2] > b[2]
    \/ a[1] = b[1] /\ a[2] = b[2] /\ a[3] > b[3]

\* resources/version.py parse_version: one leading v or V removed, exactly
\* three parts, int of each; ok = FALSE stands for the ValueError
ParseVersion(version_str) ==
    LET body == IF version_str # <<>> /\ Head(version_str) \in {"v", "V"}
                THEN Tail(version_str) ELSE version_str
        parts == Split(body)
    IN  IF Len(parts) # 3 THEN [ok |-> FALSE, v |-> <<0, 0, 0>>]
        ELSE LET ints == [i \in 1..3 |-> PyInt(parts[i])]
             IN  IF \A i \in 1..3 : ints[i].ok
                 THEN [ok |-> TRUE, v |-> <<ints[1].v, ints[2].v, ints[3].v>>]
                 ELSE [ok |-> FALSE, v |-> <<0, 0, 0>>]

\* a comparison that also answers True for equal triples
TupleLessOrEqual(a, b) == ~TupleGreater(a, b)

\* tuple comparison a < b on triples
TupleLess(a, b) == TupleGreater(b, a)

\* resources/version.py compare_versions: ok = FALSE stands for the
\* ValueError of either parse_version
CompareVersionsValue(v1, v2) ==
    LET t1 == ParseVersion(v1)
        t2 == ParseVersion(v2)
    IN  IF ~t1.ok \/ ~t2.ok THEN [ok |-> FALSE, v |-> 0]
        ELSE IF TupleLess(t1.v, t2.v) THEN [ok |-> TRUE, v |-> 0 - 1]
        ELSE IF TupleGreater(t1.v, t2.v) THEN [ok |-> TRUE, v |-> 1]
        ELSE [ok |-> TRUE, v |-> 0]

\* Updater._is_newer_version with self.current_version = cur
IsNewerVersion(cur, other_version) ==
    IF cur = None THEN TRUE
    ELSE
        LET current == UpdaterParseVersion(Val(cur))
            other == UpdaterParseVersion(other_version)
        IN  IF current.ok /\ other.ok THEN TupleGreater(other.v, current.v)
            ELSE FALSE

(***************************************************************************)
(* File system.  A file name is a sequence of tokens, a suffix one token   *)
(* (<<"POS", "-Windows", ".zip">>); a path is <<directory>> \o name.        *)
(***************************************************************************)
Absent == [k |-> "absent", d |-> <<>>]

File(bytes) == [k |-> "file", d |-> bytes]

\* a directory entry of the installed tree, d names its content
Dir(bytes) == [k |-> "dir", d |-> bytes]

Exists(f, p) == f[p].k # "absent"

Suffixes == {".zip", ".exe", ".dll", ".tmp", ".json", ".exe.bak"}

\* Path.with_suffix: replaces the last suffix, or adds one
WithSuffix(p, suffix) ==
    IF p[Len(p)] \in Suffixes
    THEN SubSeq(p, 1, Len(p) - 1) \o <<suffix>>
    ELSE p \o <<suffix>>

\* APP_EXECUTABLE_NAME + "-Windows"
ASSET_NAME_PATTERN == <<"POS", "-Windows">>

\* APP_EXECUTABLE on win32
APP_EXECUTABLE == <<"POS", ".exe">>

ZipName == ASSET_NAME_PATTERN \o <<".zip">>

\* self.temp_dir / info.name
DownloadPath(name) == <<"temp">> \o name

\* get_app_compressed_path(file_name)
GetAppCompressedPath(name) == <<"inst">> \o name

\* members of the release archive, in archive order
ZipMembers == << <<"inst", "POS", ".exe">>, <<"inst", "lib", ".dll">> >>

\* another file of the temp directory, not written by the Updater
TempOther == <<"temp", "other", ".tmp">>

UpdaterPaths ==
    {DownloadPath(ZipName), TempOther, GetAppCompressedPath(ZipName),
     WithSuffix(GetAppCompressedPath(ZipName), ".exe.bak")}
    \cup {ZipMembers[i] : i \in 1..Len(ZipMembers)}

\* name of the backup directory inside the installed directory
BACKUP_NAME == <<"backup">>

\* entries the installed directory may hold next to the backup directory:
\* the executable (a file) and a data directory
EntryNames == {APP_EXECUTABLE, <<"data">>}

\* self.pos_base_dir / name
PosPath(name) == <<"pos">> \o name

\* self.backup_dir / name
BackupEntryPath(name) == <<"pos", "backup">> \o name

BackupManagerPaths ==
    {PosPath(n) : n \in EntryNames} \cup {BackupEntryPath(n) : n \in EntryNames}

\* the orders in which Path.iterdir may list a directory holding names
IterOrders(names) ==
    {o \in [1..Cardinality(names) -> names] :
        \A i \in DOMAIN o : \A j \in DOMAIN o : i # j => o[i] # o[j]}

(***************************************************************************)
(* Release payloads: a complete archive of release r is the byte r         *)
(* repeated; release 0 is the installed one, release 1 the published one   *)
(***************************************************************************)
Release == [old |-> 0, new |-> 1]

Payload(r) == [i \in 1..PayloadLen |-> r]

\* a payload damaged in transit: its last byte differs
Corrupt(bytes) == [bytes EXCEPT ![Len(bytes)] = 9]

\* zipfile.ZipFile opens only a complete archive
IsZip(c) ==
    /\ c.k = "file"
    /\ Len(c.d) = PayloadLen
    /\ c.d[1] \in {Release.old, Release.new}
    /\ c.d = Payload(c.d[1])

\* what extractall writes for a member of the archive c
MemberOf(c) == File(<<c.d[1]>>)

(***************************************************************************)
(* resources/utils.py: safe_delete and safe_rename                         *)
(***************************************************************************)
DeleteOutcomes == {"ok", "perm", "err"}

\* one outcome per attempt; attempts after the one that ends the loop are
\* never made, so their entry is fixed
DeleteScheds ==
    {s \in [1..SAFE_MAX_RETRIES -> DeleteOutcomes] :
        \A i \in 1..SAFE_MAX_RETRIES : \A j \in 1..SAFE_MAX_RETRIES :
            (i < j /\ s[i] # "perm") => s[j] = "ok"}

\* a handler of PermissionError that gives up at once
GiveUp(attempt) == FALSE

\* `if attempt < max_retries - 1: time.sleep(retry_delay)` in the handler of
\* PermissionError: another attempt follows
RetryAfterLock(attempt) == attempt < SAFE_MAX_RETRIES - 1

RECURSIVE SafeDeleteFrom(_, _, _, _)
\* attempt is the loop index of `for attempt in range(max_retries)`; tries
\* lists how each attempt made ended: "ok", "perm" (PermissionError) or
\* "err" (another exception)
SafeDeleteFrom(attempt, f, p, sched) ==
    IF attempt >= SAFE_MAX_RETRIES
    THEN [ok |-> FALSE, fs |-> f, tries |-> <<>>]
    ELSE IF ~Exists(f, p) THEN [ok |-> TRUE, fs |-> f, tries |-> <<"ok">>]
    ELSE IF sched[attempt + 1] = "ok"
         THEN [ok |-> TRUE, fs |-> [f EXCEPT ![p] = Absent],
               tries |-> <<"ok">>]
    ELSE IF sched[attempt + 1] = "perm"
         THEN IF RetryAfterLock(attempt)
              THEN LET r == SafeDeleteFrom(attempt + 1, f, p, sched)
                   IN  [r EXCEPT !.tries = <<"perm">> \o @]
              ELSE [ok |-> FALSE, fs |-> f, tries |-> <<"perm">>]
    ELSE [ok |-> FALSE, fs |-> f, tries |-> <<"err">>]

SafeDelete(f, p, sched) == SafeDeleteFrom(0, f, p, sched)

\* per attempt: the unlink of the destination or the move may raise
\* PermissionError (perm_*) or another exception (err_*)
RenameOutcomes == {"ok", "perm_unlink", "err_unlink", "perm_move", "err_move"}

RenameScheds ==
    {s \in [1..SAFE_MAX_RETRIES -> RenameOutcomes] :
        \A i \in 1..SAFE_MAX_RETRIES : \A j \in 1..SAFE_MAX_RETRIES :
            (i < j /\ s[i] \notin {"perm_unlink", "perm_move"}) => s[j] = "ok"}

RECURSIVE SafeRenameFrom(_, _, _, _, _)
SafeRenameFrom(attempt, f, src, dst, sched) ==
    IF attempt >= SAFE_MAX_RETRIES
    THEN [ok |-> FALSE, fs |-> f, tries |-> <<>>]
    ELSE
        LET o == sched[attempt + 1]
            retry(g) ==
                IF RetryAfterLock(attempt)
                THEN LET r == SafeRenameFrom(attempt + 1, g, src, dst, sched)
                     IN  [r EXCEPT !.tries = <<"perm">> \o @]
                ELSE [ok |-> FALSE, fs |-> g, tries |-> <<"perm">>]
            \* if dst.exists(): dst.unlink()
            unlinked == [f EXCEPT ![dst] = Absent]
        IN  IF Exists(f, dst) /\ o = "perm_unlink" THEN retry(f)
            ELSE IF Exists(f, dst) /\ o = "err_unlink"
                 THEN [ok |-> FALSE, fs |-> f, tries |-> <<"err">>]
            \* shutil.move(src, dst); a missing src is a FileNotFoundError
            ELSE IF ~Exists(f, src)
                 THEN [ok |-> FALSE, fs |-> unlinked, tries |-> <<"err">>]
            ELSE IF o = "perm_move" THEN retry(unlinked)
            ELSE IF o = "err_move"
                 THEN [ok |-> FALSE, fs |-> unlinked, tries |-> <<"err">>]
            ELSE [ok |-> TRUE,
                  fs |-> [unlinked EXCEPT ![dst] = f[src], ![src] = Absent],
                  tries |-> <<"ok">>]

SafeRename(f, src, dst, sched) == SafeRenameFrom(0, f, src, dst, sched)

(***************************************************************************)
(* resources/utils.py: checksums                                           *)
(***************************************************************************)
HexLower == <<"a", "b", "c", "d", "e", "f", "g", "h", "i", "j">>

HexUpper == <<"A", "B", "C", "D", "E", "F", "G", "H", "I", "J">>

\* hashlib.sha256(...).hexdigest(): lowercase, one digit per byte here, so
\* that different contents have different digests
CalculateSha256(bytes) == [i \in 1..Len(bytes) |-> HexLower[bytes[i] + 1]]

LowerChar(c) ==
    IF \E i \in 1..10 : HexUpper[i] = c
    THEN HexLower[CHOOSE i \in 1..10 : HexUpper[i] = c]
    ELSE IF c = "SHA256" THEN "sha256"
    ELSE IF c = "MD5" THEN "md5"
    ELSE c

\* str.lower()
Lower(s) == [i \in 1..Len(s) |-> LowerChar(s[i])]

\* utils.verify_checksum; readable = FALSE stands for the IOError of a read
VerifyChecksumFile(f, p, expected_hash, readable) ==
    IF ~Exists(f, p) \/ ~readable THEN FALSE
    ELSE Lower(CalculateSha256(f[p].d)) = Lower(expected_hash)

RECURSIVE IndexOf(_, _, _)
\* position of the first c in s at or after i, 0 if none
IndexOf(s, c, i) ==
    IF i > Len(s) THEN 0 ELSE IF s[i] = c THEN i ELSE IndexOf(s, c, i + 1)

\* Updater._verify_checksum: checksum_str is a sequence of tokens, the
\* algorithm name one token, ":" one token, each hex digit one token
UpdaterVerifyChecksum(f, p, checksum_str, readable) ==
    LET colon == IndexOf(checksum_str, ":", 1)
        algorithm == IF colon > 0 THEN SubSeq(checksum_str, 1, colon - 1)
                     ELSE <<"sha256">>
        expected_hash == IF colon > 0
                         THEN SubSeq(checksum_str, colon + 1, Len(checksum_str))
                         ELSE checksum_str
    IN  IF Lower(algorithm) # <<"sha256">> THEN TRUE
        ELSE VerifyChecksumFile(f, p, expected_hash, readable)

(***************************************************************************)
(* resources/utils.py: the process table                                   *)
(***************************************************************************)
\* is_process_running: a failed query (SubprocessError) answers False
IsProcessRunning(running, query_ok) == running /\ query_ok

\* what the terminate request does to a running target
KillEffects == {"killed", "survived", "error"}

\* kill_process: ok is its return value, running the process afterwards
KillProcess(running, query1_ok, effect, query2_ok) ==
    IF ~IsProcessRunning(running, query1_ok)
    THEN [ok |-> TRUE, running |-> running]
    ELSE IF effect = "error" THEN [ok |-> FALSE, running |-> running]
    ELSE LET after == IF effect = "killed" THEN FALSE ELSE running
         IN  [ok |-> ~IsProcessRunning(after, query2_ok), running |-> after]

\* `if is_process_running(APP_EXECUTABLE): if not kill_process(APP_EXECUTABLE):
\* raise`, as apply_update and downgrade both do: ok tells whether the caller
\* goes on, running the process afterwards
StopTargetIgnoringKill(running, query_ok, query1_ok, effect, query2_ok) ==
    IF ~IsProcessRunning(running, query_ok)
    THEN [ok |-> TRUE, running |-> running, kill_failed |-> FALSE]
    ELSE LET kill == KillProcess(running, query1_ok, effect, query2_ok)
         IN  [ok |-> TRUE, running |-> kill.running, kill_failed |-> ~kill.ok]

StopTarget(running, query_ok, query1_ok, effect, query2_ok) ==
    IF ~IsProcessRunning(running, query_ok)
    THEN [ok |-> TRUE, running |-> running, kill_failed |-> FALSE]
    ELSE LET kill == KillProcess(running, query1_ok, effect, query2_ok)
         IN  [ok |-> kill.ok, running |-> kill.running, kill_failed |-> ~kill.ok]

(***************************************************************************)
(* The release host                                                        *)
(***************************************************************************)
V010 == <<"0", ".", "1", ".", "0">>

V020 == <<"0", ".", "2", ".", "0">>

\* tag_name values a release may carry
Tags ==
    {<<"v">> \o V020, V010, <<"a", "b", "c">>, <<"1", ".", "2">>, <<>>,
     <<"v", "0", ".", "x", ".", "1">>, <<"V", "1", ".", "0", ".", "0">>,
     <<"0", ".", "1", ".", "9">>}

\* installed versions the launcher may have read at start
CurrentVersions == {None, Some(V010), Some(V020)}

AssetLists == {<<>>, <<[id |-> 1, name |-> ZipName]>>}

ReleaseData == [tag_name : Tags, assets : AssetLists]

\* what the host streams for an asset: the payload, a damaged payload, or
\* a stream that ends one byte early without an error
Served == {Payload(Release.new), Corrupt(Payload(Release.new)),
           SubSeq(Payload(Release.new), 1, PayloadLen - 1)}

\* number of response.read calls that return data
NChunks(bytes) == (Len(bytes) + ChunkSize - 1) \div ChunkSize

Min(a, b) == IF a < b THEN a ELSE b

\* bytes written after k chunks
Written(bytes, k) == SubSeq(bytes, 1, Min(k * ChunkSize, Len(bytes)))

\* the length of chunk j of bytes
ChunkLen(bytes, j) == Min(j * ChunkSize, Len(bytes)) - (j - 1) * ChunkSize

\* a progress report that passes len(chunk) instead of the running total
ChunkLengths(bytes, k) == [j \in 1..k |-> ChunkLen(bytes, j)]

\* values of `downloaded` passed to the callback after each of the first k
\* chunks (lines 387, 396, 400)
ProgressValues(bytes, k) == [j \in 1..k |-> Min(j * ChunkSize, Len(bytes))]

\* checksum strings an UpdateInfo may carry
HashNew == CalculateSha256(Payload(Release.new))

HashOther == CalculateSha256(Corrupt(Payload(Release.new)))

Checksums ==
    {None, Some(<<>>), Some(<<"sha256", ":">> \o HashNew),
     Some(<<"SHA256", ":">> \o [i \in 1..PayloadLen |-> "B"]),
     Some(HashNew), Some(<<"MD5", ":">> \o HashNew)}

UpdateInfo(name, version, url, checksum) ==
    [name |-> name, version |-> version, download_url |-> url,
     checksum |-> checksum]

\* UpdateInfo objects a caller may pass to download_update
ExplicitInfos == {UpdateInfo(ZipName, V020, 1, c) : c \in Checksums}

(***************************************************************************)
(* State                                                                   *)
(***************************************************************************)
VARIABLES
    updater,         \* the Updater object's fields
    backup_manager,  \* the BackupManager object's fields
    fs,              \* path -> content
    dirs,            \* the directories that exist
    procRunning,     \* whether the target application runs
    versionFiles,    \* the installed-version record at each location
    pc,              \* position of the running call, "idle" between calls
    ret,             \* how the last call ended
    loc,             \* locals of the running call
    hist,            \* history of the running call (not program state)
    launcher_ui,     \* the LauncherUI window: fields, threads, Tk callbacks
    launcher         \* the launcher process: position of main()

vars == <<updater, backup_manager, fs, dirs, procRunning, versionFiles,
          pc, ret, loc, hist, launcher_ui, launcher>>

\* the Updater and the BackupManager used without a launcher window
NoWindow ==
    [window |-> FALSE, is_updating |-> FALSE, is_checking |-> FALSE,
     has_backups_available |-> FALSE, shown |-> FALSE, threads |-> <<>>,
     queue |-> {}, calls |-> {}]

\* no launcher process; starts counts the calls of start_application on an
\* executable that exists
NoLauncher ==
    [at |-> "none", launched |-> "none", error |-> "",
     should_start_app |-> FALSE, starts |-> 0]

\* a step of the Updater or the BackupManager alone
Alone(A) == A /\ UNCHANGED <<launcher_ui, launcher>>

Ret(op, kind, why) == [op |-> op, kind |-> kind, why |-> why]

NoLoc ==
    [info |-> None, attempt |-> 0, last_error |-> "", backup |-> FALSE,
     backup_path |-> None, exc |-> ""]

AllPaths == UpdaterPaths \cup BackupManagerPaths

\* the installed tree of release r
InstalledTree(r) ==
    [p \in AllPaths |->
        IF p = GetAppCompressedPath(ZipName) THEN File(Payload(r))
        ELSE IF \E i \in 1..Len(ZipMembers) : ZipMembers[i] = p
             THEN MemberOf(File(Payload(r)))
        ELSE Absent]

NoHist ==
    [tag |-> None, attempts |-> <<>>, progress |-> <<>>,
     pre |-> [p \in AllPaths |-> Absent],
     preVersion |-> [primary |-> None, fallback |-> None],
     killFailed |-> FALSE, asideDone |-> FALSE, renameFailed |-> FALSE,
     installed |-> FALSE, info |-> None, lastStart |-> 0, restored |-> FALSE,
     assets |-> None, arg |-> None, faults |-> 0, fault |-> FALSE, wasRunning |-> FALSE, afterCreate |-> FALSE,
     preCreate |-> [p \in AllPaths |-> Absent]]

\* Updater._find_asset
PatternList ==
    <<ASSET_NAME_PATTERN \o <<".zip">>, ASSET_NAME_PATTERN \o <<".exe">>,
      APP_EXECUTABLE, ASSET_NAME_PATTERN>>

\* `pattern in asset_name`
Contains(name, pattern) ==
    \E i \in 0..(Len(name) - Len(pattern)) :
        SubSeq(name, i + 1, i + Len(pattern)) = pattern

AssetMatches(name) ==
    \/ \E i \in 1..Len(PatternList) : name = PatternList[i]
    \/ \E i \in 1..Len(PatternList) : Contains(name, PatternList[i])

RECURSIVE FindAssetFrom(_, _)
FindAssetFrom(assets, i) ==
    IF i > Len(assets) THEN assets[1]
    ELSE IF AssetMatches(assets[i].name) THEN assets[i]
    ELSE FindAssetFrom(assets, i + 1)

\* assets is not empty here: check_for_updates raises before on an empty list
FindAsset(assets) == FindAssetFrom(assets, 1)

(***************************************************************************)
(* Updater.check_for_updates                                               *)
(***************************************************************************)
CheckKind(request_ok, release_data) ==
    IF ~request_ok THEN "UpdateError"
    ELSE IF release_data.tag_name = <<>> THEN "UpdateError"
    ELSE IF ~IsNewerVersion(updater.current_version,
                            LStripSet(release_data.tag_name, {"v", "V"}))
         THEN "None"
    ELSE IF release_data.assets = <<>> THEN "UpdateError"
    ELSE "UpdateInfo"

CheckForUpdates(releases) ==
    /\ pc = "idle"
    /\ \E request_ok \in BOOLEAN, release_data \in releases :
         LET kind == CheckKind(request_ok, release_data)
             available_version == LStripSet(release_data.tag_name, {"v", "V"})
         IN  /\ updater' =
                  IF kind = "UpdateInfo"
                  THEN [updater EXCEPT !.update_info =
                          Some(UpdateInfo(FindAsset(release_data.assets).name,
                                          available_version,
                                          FindAsset(release_data.assets).id,
                                          None))]
                  ELSE updater
             /\ ret' = Ret("check", kind, "")
             /\ hist' = [NoHist EXCEPT
                           !.tag = IF request_ok
                                   THEN Some(release_data.tag_name) ELSE None,
                           !.assets = IF request_ok
                                      THEN Some(release_data.assets) ELSE None]
    /\ UNCHANGED <<backup_manager, fs, dirs, procRunning, versionFiles, pc, loc>>

(***************************************************************************)
(* Updater.set_progress_callback                                           *)
(***************************************************************************)
SetProgressCallback ==
    /\ pc = "idle"
    /\ ~updater.progress_callback
    /\ updater' = [updater EXCEPT !.progress_callback = TRUE]
    /\ ret' = Ret("set_progress_callback", "None", "")
    /\ hist' = NoHist
    /\ UNCHANGED <<backup_manager, fs, dirs, procRunning, versionFiles, pc,
                   loc>>

(***************************************************************************)
(* Updater.download_update                                                 *)
(***************************************************************************)
\* an info that prefers the Updater's own
OwnInfoFirst(update_info, own) ==
    IF own # None THEN own ELSE update_info

\* line 316: `info = update_info or self.update_info`
ChosenInfo(update_info, own) ==
    IF update_info # None THEN update_info ELSE own

\* lines 316-324: the info, the temp directory, the download path
DownloadStart(infos) ==
    /\ pc = "idle"
    /\ \E update_info \in {None} \cup {Some(i) : i \in infos},
          mkdir_ok \in BOOLEAN :
         LET info == ChosenInfo(update_info, updater.update_info)
         IN  IF info = None
             THEN /\ ret' = Ret("download", "UpdateError", "no_info")
                  /\ hist' = [NoHist EXCEPT !.arg = update_info]
                  /\ UNCHANGED <<dirs, pc, loc>>
             ELSE /\ dirs' = IF mkdir_ok THEN dirs \cup {"temp"} ELSE dirs
                  /\ pc' = "dl_attempt"
                  /\ loc' = [NoLoc EXCEPT !.info = info]
                  /\ ret' = Ret("download", "running", "")
                  /\ hist' = [NoHist EXCEPT !.arg = update_info]
    /\ UNCHANGED <<updater, backup_manager, fs, procRunning, versionFiles>>

\* what one call of _download_file may do: fail before the file is opened,
\* or open (truncate) it, write k chunks and then end, raise UpdateError or
\* raise another exception
AttemptEnds == {"ok", "UpdateError", "Exception"}

\* `for attempt in range(MAX_DOWNLOAD_RETRIES)`: whether another iteration
\* follows the one with index attempt
OneMoreAttempt(attempt) == attempt + 1 <= MAX_DOWNLOAD_RETRIES

MoreAttempts(attempt) == attempt + 1 < MAX_DOWNLOAD_RETRIES

\* lines 328-338: one iteration of the retry loop
DownloadAttempt(served) ==
    /\ pc = "dl_attempt"
    /\ LET path == DownloadPath(Val(loc.info).name)
           fail(why) ==
               IF MoreAttempts(loc.attempt)
               THEN /\ pc' = "dl_attempt"
                    /\ ret' = ret
                    /\ loc' = [loc EXCEPT !.attempt = @ + 1,
                                          !.last_error = why]
               ELSE /\ pc' = "idle"
                    /\ ret' = Ret("download", "UpdateError", why)
                    /\ loc' = NoLoc
       IN  \/ \* the request or open() fails: nothing is written
              /\ fail("request")
              /\ hist' = [hist EXCEPT !.attempts = Append(@, "request"),
                                      !.lastStart = Len(hist.progress)]
              /\ fs' = fs
           \/ \E bytes \in served, end \in AttemptEnds :
              \E k \in 0..NChunks(bytes) :
                /\ "temp" \in dirs
                /\ end = "ok" => k = NChunks(bytes)
                /\ fs' = [fs EXCEPT ![path] = File(Written(bytes, k))]
                /\ hist' = [hist EXCEPT
                       !.attempts = Append(@, IF end = "UpdateError"
                                                 THEN "stream" ELSE end),
                       !.lastStart = Len(hist.progress),
                       !.progress = IF updater.progress_callback
                                    THEN @ \o ProgressValues(bytes, k)
                                    ELSE @]
                /\ CASE end = "ok" ->
                          /\ pc' = "dl_verify"
                          /\ UNCHANGED <<loc, ret>>
                     [] end = "UpdateError" -> fail("stream")
                     [] end = "Exception" ->
                          /\ pc' = "idle"
                          /\ ret' = Ret("download", "Exception", "")
                          /\ loc' = NoLoc
    /\ UNCHANGED <<updater, backup_manager, dirs, procRunning, versionFiles>>

\* `if info.checksum:`
Truthy(checksum) == checksum # None /\ Val(checksum) # <<>>

\* lines 340-347: the checksum, then downloaded_file
DownloadVerify ==
    /\ pc = "dl_verify"
    /\ LET info == Val(loc.info)
           path == DownloadPath(info.name)
       IN  \E readable \in BOOLEAN, sched \in DeleteScheds :
             IF Truthy(info.checksum)
                /\ ~UpdaterVerifyChecksum(fs, path, Val(info.checksum), readable)
             THEN /\ fs' = SafeDelete(fs, path, sched).fs
                  /\ ret' = Ret("download", "UpdateError", "checksum")
                  /\ updater' = updater
             ELSE /\ updater' = [updater EXCEPT !.downloaded_file = Some(path)]
                  /\ ret' = Ret("download", "Path", "")
                  /\ fs' = fs
    /\ pc' = "idle"
    /\ loc' = NoLoc
    /\ hist' = [hist EXCEPT !.info = loc.info]
    /\ UNCHANGED <<backup_manager, dirs, procRunning, versionFiles>>

(***************************************************************************)
(* Updater.cleanup                                                         *)
(***************************************************************************)
\* a removal of the directory whatever it holds
TempAny(f) == TRUE

\* `self.temp_dir.rmdir()` succeeds on an empty directory only
TempEmpty(f) == \A p \in DOMAIN f : p[1] = "temp" => ~Exists(f, p)

Cleanup ==
    /\ pc = "idle"
    /\ \E sched \in DeleteScheds :
         LET f1 == IF updater.downloaded_file # None
                      /\ Exists(fs, Val(updater.downloaded_file))
                   THEN SafeDelete(fs, Val(updater.downloaded_file), sched).fs
                   ELSE fs
         IN  /\ fs' = f1
             /\ dirs' = IF "temp" \in dirs /\ TempEmpty(f1)
                        THEN dirs \ {"temp"} ELSE dirs
    /\ ret' = Ret("cleanup", "None", "")
    /\ hist' = NoHist
    /\ UNCHANGED <<updater, backup_manager, procRunning, versionFiles, pc,
                   loc>>

(***************************************************************************)
(* Updater.apply_update                                                    *)
(***************************************************************************)
AppPath == GetAppCompressedPath(Val(updater.update_info).name)

BackupPath == WithSuffix(AppPath, ".exe.bak")

\* a precondition that trusts the recorded path
DownloadedFileRecorded(u, f) == u.downloaded_file # None

\* line 469: `self.downloaded_file and self.downloaded_file.exists()`
DownloadedFileExists(u, f) ==
    u.downloaded_file # None /\ Exists(f, Val(u.downloaded_file))

\* lines 469-473: the preconditions
ApplyStart ==
    /\ pc = "idle"
    /\ \E backup \in BOOLEAN :
         IF ~DownloadedFileExists(updater, fs)
         THEN /\ ret' = Ret("apply", "UpdateError", "no_file")
              /\ UNCHANGED <<pc, loc>>
         ELSE IF updater.update_info = None
         THEN /\ ret' = Ret("apply", "UpdateError", "no_info")
              /\ UNCHANGED <<pc, loc>>
         ELSE /\ pc' = "ap_proc"
              /\ loc' = [NoLoc EXCEPT !.backup = backup]
              /\ ret' = Ret("apply", "running", "")
    /\ hist' = [NoHist EXCEPT !.pre = fs, !.preVersion = versionFiles]
    /\ UNCHANGED <<updater, backup_manager, fs, dirs, procRunning,
                   versionFiles>>

\* lines 477-482: stop the target application
ApplyProc ==
    /\ pc = "ap_proc"
    /\ \E query_ok \in BOOLEAN, query1_ok \in BOOLEAN, query2_ok \in BOOLEAN,
          effect \in KillEffects :
         LET stop == StopTarget(procRunning, query_ok, query1_ok, effect,
                                query2_ok)
         IN  /\ procRunning' = stop.running
             /\ hist' = [hist EXCEPT !.killFailed = stop.kill_failed,
                                     !.faults = IF stop.ok THEN @ ELSE @ + 1]
             /\ IF stop.ok
                THEN pc' = "ap_aside" /\ UNCHANGED <<ret, loc>>
                ELSE /\ pc' = "idle"
                     /\ ret' = Ret("apply", "UpdateError", "busy")
                     /\ loc' = NoLoc
    /\ UNCHANGED <<updater, backup_manager, fs, dirs, versionFiles>>

\* lines 483-489: rename the installed artifact aside
ApplyAside ==
    /\ pc = "ap_aside"
    /\ IF loc.backup /\ Exists(fs, AppPath)
       THEN \E sched \in RenameScheds :
              LET r == SafeRename(fs, AppPath, BackupPath, sched)
              IN  /\ fs' = r.fs
                  /\ loc' = IF r.ok
                            THEN [loc EXCEPT !.backup_path = Some(BackupPath)]
                            ELSE NoLoc
                  /\ IF r.ok
                     THEN /\ pc' = "ap_rename"
                          /\ hist' = [hist EXCEPT !.asideDone = TRUE]
                          /\ ret' = ret
                     ELSE /\ pc' = "idle"
                          /\ ret' = Ret("apply", "UpdateError", "backup")
                          /\ hist' = [hist EXCEPT !.faults = @ + 1]
       ELSE /\ pc' = "ap_rename"
            /\ UNCHANGED <<fs, loc, ret, hist>>
    /\ UNCHANGED <<updater, backup_manager, dirs, procRunning, versionFiles>>

\* lines 493-496: the install directory, then the downloaded file into place
ApplyRename ==
    /\ pc = "ap_rename"
    /\ \E mkdir_ok \in BOOLEAN, sched \in RenameScheds :
         IF "inst" \notin dirs /\ ~mkdir_ok
         THEN /\ pc' = "ap_rollback"
              /\ hist' = [hist EXCEPT !.faults = @ + 1]
              /\ UNCHANGED <<fs, dirs>>
         ELSE LET r == SafeRename(fs, Val(updater.downloaded_file), AppPath,
                                  sched)
              IN  /\ dirs' = dirs \cup {"inst"}
                  /\ fs' = r.fs
                  /\ IF r.ok
                     THEN pc' = "ap_extract" /\ hist' = hist
                     ELSE /\ pc' = "ap_restore"
                          /\ hist' = [hist EXCEPT !.renameFailed = TRUE,
                                                  !.faults = @ + 1]
    /\ UNCHANGED <<updater, backup_manager, procRunning, versionFiles, ret,
                   loc>>

\* a handler that restores nothing
RestoreNothing(f, sched) == f

\* `if backup_path and backup_path.exists(): safe_rename(backup_path, app_path)`
RestoreBackup(f, sched) ==
    IF loc.backup_path # None /\ Exists(f, Val(loc.backup_path))
    THEN SafeRename(f, Val(loc.backup_path), AppPath, sched).fs
    ELSE f

\* whether that safe_rename was called and returned True
RestoreDone(f, sched) ==
    /\ loc.backup_path # None
    /\ Exists(f, Val(loc.backup_path))
    /\ SafeRename(f, Val(loc.backup_path), AppPath, sched).ok

\* whether that safe_rename was called and returned False
RestoreFailed(f, sched) ==
    /\ loc.backup_path # None
    /\ Exists(f, Val(loc.backup_path))
    /\ ~SafeRename(f, Val(loc.backup_path), AppPath, sched).ok

\* lines 497-500: the rename failed; restore, then raise into the handler
ApplyRestore ==
    /\ pc = "ap_restore"
    /\ \E sched \in RenameScheds :
         /\ fs' = RestoreBackup(fs, sched)
         /\ hist' = [hist EXCEPT
                       !.restored = @ \/ RestoreDone(fs, sched),
                       !.faults = IF RestoreFailed(fs, sched)
                                  THEN @ + 1 ELSE @]
    /\ pc' = "ap_rollback"
    /\ UNCHANGED <<updater, backup_manager, dirs, procRunning, versionFiles,
                   ret, loc>>

RECURSIVE ExtractFirst(_, _, _)
\* the first k members of the archive c written over f
ExtractFirst(f, c, k) ==
    IF k = 0 THEN f
    ELSE [ExtractFirst(f, c, k - 1) EXCEPT ![ZipMembers[k]] = MemberOf(c)]

\* lines 502-505: ZipFile(app_path).extractall(app_path.parent)
ApplyExtract ==
    /\ pc = "ap_extract"
    /\ IF ~IsZip(fs[AppPath])
       THEN /\ pc' = "ap_rollback"
            /\ fs' = fs
            /\ hist' = [hist EXCEPT !.faults = @ + 1]
       ELSE \E k \in 0..Len(ZipMembers) :
              /\ fs' = ExtractFirst(fs, fs[AppPath], k)
              /\ pc' = IF k = Len(ZipMembers) THEN "ap_version"
                       ELSE "ap_rollback"
              /\ hist' = [hist EXCEPT !.faults = IF k = Len(ZipMembers)
                                                 THEN @ ELSE @ + 1]
    /\ UNCHANGED <<updater, backup_manager, dirs, procRunning, versionFiles,
                   ret, loc>>

\* Updater._update_version_file at the primary location (lines 535-556):
\* the record read, updated in place and written back
PrimaryRecord(existing, version) ==
    [version |-> version,
     installed_at |-> IF existing # None /\ Val(existing).installed_at # "missing"
                      THEN Val(existing).installed_at ELSE "now",
     updated_at |-> "now",
     last_update_check |-> IF existing # None
                           THEN Val(existing).last_update_check
                           ELSE "missing"]

\* at the fallback location (lines 573-580): a new record
FallbackRecord(version) ==
    [version |-> version, installed_at |-> "missing", updated_at |-> "now",
     last_update_check |-> "missing"]

\* main.get_installed_version_of_pos (main.py lines 31-44): the "version" of
\* the record at POS_BASE_DIR / "version.json", None without that file.
\* The fallback location of _update_version_file (%APPDATA%/POS, lines
\* 562-566) is another file than POS_BASE_DIR (the local application data
\* folder, utils.py lines 107-117).
GetInstalledVersionOfPos(files) ==
    IF files.primary = None THEN None ELSE Some(Val(files.primary).version)

VersionWrites == {"primary_ok", "primary_raises", "fallback_ok", "fallback_fails"}

\* lines 508-510: the version record, then return True
ApplyVersion ==
    /\ pc = "ap_version"
    /\ \E w \in VersionWrites :
         /\ versionFiles' =
              CASE w = "primary_ok" ->
                     [versionFiles EXCEPT !.primary =
                        Some(PrimaryRecord(@, Val(updater.update_info).version))]
                [] w = "fallback_ok" ->
                     [versionFiles EXCEPT !.fallback =
                        Some(FallbackRecord(Val(updater.update_info).version))]
                [] OTHER -> versionFiles
         /\ IF w = "primary_raises"
            THEN /\ pc' = "ap_rollback"
                 /\ hist' = [hist EXCEPT !.faults = @ + 1]
                 /\ ret' = ret
            ELSE /\ pc' = "idle"
                 /\ ret' = Ret("apply", "True", "")
                 /\ hist' = [hist EXCEPT !.installed = TRUE]
    /\ loc' = IF pc' = "idle" THEN NoLoc ELSE loc
    /\ UNCHANGED <<updater, backup_manager, fs, dirs, procRunning>>

\* lines 512-516: the handler of any exception of the try block
ApplyRollback ==
    /\ pc = "ap_rollback"
    /\ \E sched \in RenameScheds :
         /\ fs' = RestoreBackup(fs, sched)
         /\ hist' = [hist EXCEPT
                       !.restored = @ \/ RestoreDone(fs, sched),
                       !.faults = IF RestoreFailed(fs, sched)
                                  THEN @ + 1 ELSE @]
    /\ pc' = "idle"
    /\ ret' = Ret("apply", "UpdateError", "apply")
    /\ loc' = NoLoc
    /\ UNCHANGED <<updater, backup_manager, dirs, procRunning, versionFiles>>

(***************************************************************************)
(* The environment: the user starts or closes the target application       *)
(***************************************************************************)
AppStarts ==
    /\ ~procRunning
    /\ procRunning' = TRUE
    /\ UNCHANGED <<updater, backup_manager, fs, dirs, versionFiles, pc, ret,
                   loc, hist>>

AppExits ==
    /\ procRunning
    /\ procRunning' = FALSE
    /\ UNCHANGED <<updater, backup_manager, fs, dirs, versionFiles, pc, ret,
                   loc, hist>>

(***************************************************************************)
(* BackupManager                                                           *)
(***************************************************************************)
\* resources.utils.has_backups: the backup directory holds the executable
HasBackups(f, d) ==
    "backup" \in d /\ Exists(f, BackupEntryPath(APP_EXECUTABLE))

\* one safe_delete schedule per entry; shutil.rmtree of a directory entry
\* raises when the first outcome of its schedule is not "ok"
EntryScheds == [EntryNames -> DeleteScheds]

RECURSIVE RemoveEntries(_, _, _, _, _, _)
\* the loop of _clear_pos_directory and of _clean_backup_directory over the
\* entries of directory d from the i-th on; skip holds the names the loop
\* passes over; ok = FALSE stands for the BackupError
RemoveEntries(f, d, order, i, scheds, skip) ==
    IF i > Len(order) THEN [ok |-> TRUE, fs |-> f]
    ELSE IF order[i] \in skip
         THEN RemoveEntries(f, d, order, i + 1, scheds, skip)
    ELSE
        LET item == d \o order[i]
        IN  IF f[item].k = "file"
            THEN LET r == SafeDelete(f, item, scheds[order[i]])
                 IN  IF r.ok
                     THEN RemoveEntries(r.fs, d, order, i + 1, scheds, skip)
                     ELSE [ok |-> FALSE, fs |-> r.fs]
            ELSE IF f[item].k = "dir"
            THEN IF scheds[order[i]][1] = "ok"
                 THEN RemoveEntries([f EXCEPT ![item] = Absent], d, order,
                                    i + 1, scheds, skip)
                 ELSE [ok |-> FALSE, fs |-> f]
            ELSE RemoveEntries(f, d, order, i + 1, scheds, skip)

RECURSIVE CopyEntries(_, _, _, _, _, _, _)
\* the loop of _copy_pos_to_backup and of _copy_backup_to_pos from the i-th
\* entry on: copy2 of a file, rmtree and copytree of a directory; the copy
\* of entry failAt raises (0: none does)
CopyEntries(f, src, dst, order, i, failAt, skip) ==
    IF i > Len(order) THEN [ok |-> TRUE, fs |-> f]
    ELSE IF order[i] \in skip
         THEN CopyEntries(f, src, dst, order, i + 1, failAt, skip)
    ELSE
        LET item == src \o order[i]
            destination == dst \o order[i]
        IN  IF ~Exists(f, item)
            THEN CopyEntries(f, src, dst, order, i + 1, failAt, skip)
            ELSE IF failAt = i THEN [ok |-> FALSE, fs |-> f]
            ELSE CopyEntries([f EXCEPT ![destination] = f[item]], src, dst,
                             order, i + 1, failAt, skip)

\* names iterdir lists in the installed directory
PosNames == EntryNames \cup {BACKUP_NAME}

\* a clean-up that empties the installed directory instead
CleanInstalled(f, order, scheds) ==
    RemoveEntries(f, <<"pos">>, order, 1, scheds, {})

\* a clean-up that removes nothing
CleanNothing(f, order, scheds) == [ok |-> TRUE, fs |-> f]

\* BackupManager._clean_backup_directory
CleanBackupDirectory(f, order, scheds) ==
    RemoveEntries(f, <<"pos", "backup">>, order, 1, scheds, {})

\* a clearing that leaves every installed entry in place
ClearNoEntry(f, order, scheds) == [ok |-> TRUE, fs |-> f]

\* BackupManager._clear_pos_directory, the installed directory existing
ClearPosDirectory(f, order, scheds) ==
    RemoveEntries(f, <<"pos">>, order, 1, scheds, {BACKUP_NAME})

\* BackupManager._copy_pos_to_backup
CopyPosToBackup(f, order, failAt) ==
    CopyEntries(f, <<"pos">>, <<"pos", "backup">>, order, 1, failAt,
                {BACKUP_NAME})

\* a restore that copies no entry and reports success
CopyNoEntry(f, order, failAt) == [ok |-> TRUE, fs |-> f]

\* BackupManager._copy_backup_to_pos, after its mkdir
CopyBackupToPos(f, order, failAt) ==
    CopyEntries(f, <<"pos", "backup">>, <<"pos">>, order, 1, failAt, {})

\* create_backup, lines 69-77: the installed directory must exist; the backup
\* directory is emptied, or made
CreateBackupClean ==
    /\ pc = "idle"
    /\ IF "pos" \notin dirs
       THEN /\ ret' = Ret("create_backup", "BackupError", "no_pos")
            /\ hist' = [NoHist EXCEPT !.pre = fs]
            /\ UNCHANGED <<fs, dirs, pc>>
       ELSE IF "backup" \in dirs
       THEN \E order \in IterOrders(EntryNames), scheds \in EntryScheds :
              LET r == CleanBackupDirectory(fs, order, scheds)
              IN  /\ fs' = r.fs
                  /\ hist' = [NoHist EXCEPT !.pre = fs, !.fault = ~r.ok]
                  /\ pc' = IF r.ok THEN "cb_copy" ELSE "idle"
                  /\ ret' = IF r.ok THEN Ret("create_backup", "running", "")
                            ELSE Ret("create_backup", "BackupError", "clean")
                  /\ dirs' = dirs
       ELSE \E mkdir_ok \in BOOLEAN :
              /\ dirs' = IF mkdir_ok THEN dirs \cup {"backup"} ELSE dirs
              /\ hist' = [NoHist EXCEPT !.pre = fs, !.fault = ~mkdir_ok]
              /\ pc' = IF mkdir_ok THEN "cb_copy" ELSE "idle"
              /\ ret' = IF mkdir_ok THEN Ret("create_backup", "running", "")
                        ELSE Ret("create_backup", "OSError", "mkdir")
              /\ fs' = fs
    /\ UNCHANGED <<updater, backup_manager, procRunning, versionFiles, loc>>

\* create_backup, lines 80-84: copy the installed entries, return True
CreateBackupCopy ==
    /\ pc = "cb_copy"
    /\ \E order \in IterOrders(PosNames), failAt \in 0..Cardinality(PosNames) :
         LET r == CopyPosToBackup(fs, order, failAt)
         IN  /\ fs' = r.fs
             /\ hist' = [hist EXCEPT !.fault = ~r.ok]
             /\ ret' = IF r.ok THEN Ret("create_backup", "True", "")
                       ELSE Ret("create_backup", "BackupError", "copy")
    /\ pc' = "idle"
    /\ UNCHANGED <<updater, backup_manager, dirs, procRunning, versionFiles,
                   loc>>

\* downgrade, lines 103-109: the has_backups field, then stop the target
DowngradeStart ==
    /\ pc = "idle"
    /\ LET h == [NoHist EXCEPT
                   !.pre = fs, !.wasRunning = procRunning,
                   !.afterCreate = (ret = Ret("create_backup", "True", "")),
                   !.preCreate = IF ret = Ret("create_backup", "True", "")
                                 THEN hist.pre ELSE @]
       IN  IF ~backup_manager.has_backups
           THEN /\ ret' = Ret("downgrade", "BackupError", "no_backup")
                /\ hist' = h
                /\ UNCHANGED <<pc, procRunning>>
           ELSE \E query_ok \in BOOLEAN, query1_ok \in BOOLEAN,
                   query2_ok \in BOOLEAN, effect \in KillEffects :
                  LET stop == StopTarget(procRunning, query_ok, query1_ok,
                                         effect, query2_ok)
                  IN  /\ procRunning' = stop.running
                      /\ hist' = [h EXCEPT !.killFailed = stop.kill_failed]
                      /\ pc' = IF stop.ok THEN "dg_clear" ELSE "idle"
                      /\ ret' = IF stop.ok THEN Ret("downgrade", "running", "")
                                ELSE Ret("downgrade", "BackupError", "busy")
    /\ UNCHANGED <<updater, backup_manager, fs, dirs, versionFiles, loc>>

\* downgrade, line 112: empty the installed directory, the backup directory
\* apart; the False of a missing installed directory is not looked at
DowngradeClear ==
    /\ pc = "dg_clear"
    /\ IF "pos" \notin dirs
       THEN pc' = "dg_copy" /\ UNCHANGED <<fs, ret, hist>>
       ELSE \E order \in IterOrders(PosNames), scheds \in EntryScheds :
              LET r == ClearPosDirectory(fs, order, scheds)
              IN  /\ fs' = r.fs
                  /\ hist' = [hist EXCEPT !.fault = ~r.ok]
                  /\ pc' = IF r.ok THEN "dg_copy" ELSE "idle"
                  /\ ret' = IF r.ok THEN ret
                            ELSE Ret("downgrade", "BackupError", "clear")
    /\ UNCHANGED <<updater, backup_manager, dirs, procRunning, versionFiles,
                   loc>>

\* downgrade, lines 115-117: copy the backup entries back
DowngradeCopy ==
    /\ pc = "dg_copy"
    /\ IF "backup" \notin dirs
       THEN /\ pc' = "idle"
            /\ ret' = Ret("downgrade", "BackupError", "no_dir")
            /\ UNCHANGED <<fs, dirs, hist>>
       ELSE \E order \in IterOrders(EntryNames),
               failAt \in 0..Cardinality(EntryNames) :
              LET r == CopyBackupToPos(fs, order, failAt)
              IN  /\ fs' = r.fs
                  /\ dirs' = dirs \cup {"pos"}
                  /\ hist' = [hist EXCEPT !.fault = ~r.ok]
                  /\ pc' = IF r.ok THEN "dg_clean" ELSE "idle"
                  /\ ret' = IF r.ok THEN ret
                            ELSE Ret("downgrade", "BackupError", "copy")
    /\ UNCHANGED <<updater, backup_manager, procRunning, versionFiles, loc>>

\* downgrade, lines 120-124: empty the backup directory, return True
DowngradeClean ==
    /\ pc = "dg_clean"
    /\ \E order \in IterOrders(EntryNames), scheds \in EntryScheds :
         LET r == CleanBackupDirectory(fs, order, scheds)
         IN  /\ fs' = r.fs
             /\ hist' = [hist EXCEPT !.fault = ~r.ok]
             /\ ret' = IF r.ok THEN Ret("downgrade", "True", "")
                       ELSE Ret("downgrade", "BackupError", "clean")
    /\ pc' = "idle"
    /\ UNCHANGED <<updater, backup_manager, dirs, procRunning, versionFiles,
                   loc>>

(***************************************************************************)
(* The Updater of a launcher run                                           *)
(***************************************************************************)
InitialRecord(version) ==
    [version |-> version, installed_at |-> "t0", updated_at |-> "t0",
     last_update_check |-> "t0"]

\* Updater.__init__ (lines 100-106), in a launcher that found the installed
\* version current_version
InitUpdater(versions) ==
    /\ \E cv \in versions :
         /\ updater = [current_version |-> cv, update_info |-> None,
                       downloaded_file |-> None, progress_callback |-> FALSE]
         /\ fs = IF cv = None THEN [p \in AllPaths |-> Absent]
                 ELSE InstalledTree(Release.old)
         /\ dirs = IF cv = None THEN {} ELSE {"inst"}
         /\ versionFiles = [primary |-> IF cv = None THEN None
                                        ELSE Some(InitialRecord(Val(cv))),
                            fallback |-> None]
    /\ backup_manager = [has_backups |-> HasBackups(fs, dirs)]
    /\ procRunning \in BOOLEAN
    /\ pc = "idle"
    /\ ret = Ret("none", "none", "")
    /\ loc = NoLoc
    /\ hist = NoHist
    /\ launcher_ui = NoWindow
    /\ launcher = NoLauncher

UpdaterReleases == [tag_name : {<<"v">> \o V020}, assets : AssetLists]

NextUpdater ==
    \/ Alone(CheckForUpdates(UpdaterReleases))
    \/ Alone(DownloadStart({}))
    \/ Alone(DownloadAttempt({Payload(Release.new), Corrupt(Payload(Release.new))}))
    \/ Alone(DownloadVerify)
    \/ Alone(ApplyStart)
    \/ Alone(ApplyProc)
    \/ Alone(ApplyAside)
    \/ Alone(ApplyRename)
    \/ Alone(ApplyRestore)
    \/ Alone(ApplyExtract)
    \/ Alone(ApplyVersion)
    \/ Alone(ApplyRollback)
    \/ Alone(AppStarts)
    \/ Alone(AppExits)

SpecUpdater == InitUpdater({None, Some(V010)}) /\ [][NextUpdater]_vars

(***************************************************************************)
(* Downloads alone: every checksum an UpdateInfo may carry, every stream   *)
(***************************************************************************)
NextDownload ==
    \/ Alone(SetProgressCallback)
    \/ Alone(DownloadStart(ExplicitInfos))
    \/ Alone(DownloadAttempt(Served))
    \/ Alone(DownloadVerify)
    \/ Alone(Cleanup)

SpecDownload == InitUpdater({Some(V010)}) /\ [][NextDownload]_vars

(***************************************************************************)
(* Downloads after checks: an explicit UpdateInfo against the Updater's own *)
(***************************************************************************)
NextDownloadInfo ==
    \/ Alone(CheckForUpdates(UpdaterReleases))
    \/ Alone(DownloadStart(ExplicitInfos))
    \/ Alone(DownloadAttempt({Payload(Release.new)}))
    \/ Alone(DownloadVerify)

SpecDownloadInfo == InitUpdater({None}) /\ [][NextDownloadInfo]_vars

(***************************************************************************)
(* Cleanup after downloads, in a temp directory that may hold another file *)
(***************************************************************************)
InitCleanup ==
    /\ updater = [current_version |-> Some(V010), update_info |-> None,
                  downloaded_file |-> None, progress_callback |-> FALSE]
    /\ \E other \in {Absent, File(Payload(Release.old))} :
         /\ fs = [InstalledTree(Release.old) EXCEPT ![TempOther] = other]
         /\ dirs = IF other = Absent THEN {"inst"} ELSE {"inst", "temp"}
    /\ versionFiles = [primary |-> Some(InitialRecord(V010)),
                       fallback |-> None]
    /\ backup_manager = [has_backups |-> HasBackups(fs, dirs)]
    /\ procRunning = FALSE
    /\ pc = "idle"
    /\ ret = Ret("none", "none", "")
    /\ loc = NoLoc
    /\ hist = NoHist
    /\ launcher_ui = NoWindow
    /\ launcher = NoLauncher

NextCleanup ==
    \/ Alone(DownloadStart({UpdateInfo(ZipName, V020, 1, None)}))
    \/ Alone(DownloadAttempt({Payload(Release.new)}))
    \/ Alone(DownloadVerify)
    \/ Alone(Cleanup)

SpecCleanup == InitCleanup /\ [][NextCleanup]_vars

(***************************************************************************)
(* resources/utils.py safe_rename between the paths apply_update renames   *)
(***************************************************************************)
RenamePaths ==
    {DownloadPath(ZipName), GetAppCompressedPath(ZipName),
     WithSuffix(GetAppCompressedPath(ZipName), ".exe.bak")}

InitRename ==
    /\ updater = [current_version |-> Some(V010), update_info |-> None,
                  downloaded_file |-> None, progress_callback |-> FALSE]
    /\ \E download \in {Absent, File(Payload(Release.new))} :
         fs = [InstalledTree(Release.old)
                 EXCEPT ![DownloadPath(ZipName)] = download]
    /\ dirs = {"inst", "temp"}
    /\ versionFiles = [primary |-> Some(InitialRecord(V010)),
                       fallback |-> None]
    /\ backup_manager = [has_backups |-> HasBackups(fs, dirs)]
    /\ procRunning = FALSE
    /\ pc = "idle"
    /\ ret = Ret("none", "none", "")
    /\ loc = NoLoc
    /\ hist = NoHist
    /\ launcher_ui = NoWindow
    /\ launcher = NoLauncher

\* safe_rename(src, dst) with the default max_retries
SafeRenameCall(paths) ==
    /\ pc = "idle"
    /\ \E src \in paths, dst \in paths, sched \in RenameScheds :
         LET r == SafeRename(fs, src, dst, sched)
         IN  /\ src # dst
             /\ fs' = r.fs
             /\ ret' = Ret("safe_rename", IF r.ok THEN "True" ELSE "False", "")
             /\ hist' = [NoHist EXCEPT !.pre = fs, !.arg = <<src, dst>>,
                                       !.attempts = r.tries]
    /\ UNCHANGED <<updater, backup_manager, dirs, procRunning, versionFiles,
                   pc, loc>>

\* safe_delete(file_path) with the default max_retries
SafeDeleteCall(paths) ==
    /\ pc = "idle"
    /\ \E file_path \in paths, sched \in DeleteScheds :
         LET r == SafeDelete(fs, file_path, sched)
         IN  /\ fs' = r.fs
             /\ ret' = Ret("safe_delete", IF r.ok THEN "True" ELSE "False", "")
             /\ hist' = [NoHist EXCEPT !.pre = fs, !.arg = <<file_path>>,
                                       !.attempts = r.tries]
    /\ UNCHANGED <<updater, backup_manager, dirs, procRunning, versionFiles,
                   pc, loc>>

NextRename == Alone(SafeRenameCall(RenamePaths))

SpecRename == InitRename /\ [][NextRename]_vars

NextSafe ==
    \/ Alone(SafeDeleteCall(RenamePaths))
    \/ Alone(SafeRenameCall(RenamePaths))

SpecSafe == InitRename /\ [][NextSafe]_vars

(***************************************************************************)
(* resources/version.py compare_versions on pairs of version strings       *)
(***************************************************************************)
VersionStrings ==
    {V010, V020, <<"v">> \o V020, <<"V", "1", ".", "0", ".", "0">>,
     <<"0", ".", "1", ".", "9">>, <<"0", ".", "1", "0", ".", "0">>,
     <<"0", ".", "9", ".", "0">>, <<"1", ".", "2">>, <<"a", "b", "c">>,
     <<"1", ".", "2", ".", "3", ".", "4">>, <<>>}

CompareVersions(strings) ==
    /\ pc = "idle"
    /\ \E v1 \in strings, v2 \in strings :
         LET r == CompareVersionsValue(v1, v2)
         IN  /\ ret' = [op |-> "compare_versions",
                        kind |-> IF r.ok THEN "int" ELSE "ValueError",
                        why |-> "", value |-> r.v]
             /\ hist' = [NoHist EXCEPT !.arg = <<v1, v2>>]
    /\ UNCHANGED <<updater, backup_manager, fs, dirs, procRunning,
                   versionFiles, pc, loc>>

NextVersion == Alone(CompareVersions(VersionStrings))

SpecVersion == InitUpdater({None}) /\ [][NextVersion]_vars

(***************************************************************************)
(* Version checks alone: every tag against every installed version         *)
(***************************************************************************)
NextCheck == Alone(CheckForUpdates(ReleaseData))

SpecCheck == InitUpdater(CurrentVersions) /\ [][NextCheck]_vars

(***************************************************************************)
(* Asset resolution alone: every short list of release assets              *)
(***************************************************************************)
\* names a release asset may carry: the four patterns, a name that holds a
\* pattern without being one, and a name that holds none
AssetNames ==
    {PatternList[i] : i \in 1..Len(PatternList)}
    \cup {<<"POS", "-Windows", "-setup", ".msi">>, <<"notes", ".txt">>}

\* longest asset list of a release
MaxAssets == 3

\* the asset lists of a release: distinct names in any order
AssetOrders ==
    UNION {{o \in [1..n -> AssetNames] :
              \A i \in 1..n : \A j \in 1..n : i # j => o[i] # o[j]} :
           n \in 1..MaxAssets}

FindReleases ==
    {[tag_name |-> <<"v">> \o V020,
      assets |-> [i \in DOMAIN o |-> [id |-> 1, name |-> o[i]]]] :
        o \in AssetOrders}

NextFindAsset == Alone(CheckForUpdates(FindReleases))

SpecFindAsset == InitUpdater({None}) /\ [][NextFindAsset]_vars

(***************************************************************************)
(* The BackupManager of a launcher window, over every small installed      *)
(* directory and every backup directory it may find                        *)
(***************************************************************************)
\* what an entry of either directory may hold
EntryContents(n) ==
    IF n = APP_EXECUTABLE
    THEN {Absent, File(<<Release.old>>), File(<<Release.new>>)}
    ELSE {Absent, Dir(<<Release.old>>)}

\* the trees a directory may hold: one content per entry name
EntryTrees ==
    {t \in [EntryNames -> {Absent, File(<<Release.old>>), File(<<Release.new>>),
                           Dir(<<Release.old>>)}] :
        \A n \in EntryNames : t[n] \in EntryContents(n)}

\* BackupManager.__init__ (lines 47-51)
InitBackup ==
    /\ dirs \in {{}, {"pos"}, {"pos", "backup"}}
    /\ \E pos \in EntryTrees, backup \in EntryTrees :
         fs = [p \in AllPaths |->
                 IF \E n \in EntryNames : p = PosPath(n) /\ "pos" \in dirs
                 THEN pos[CHOOSE n \in EntryNames : p = PosPath(n)]
                 ELSE IF \E n \in EntryNames :
                            p = BackupEntryPath(n) /\ "backup" \in dirs
                 THEN backup[CHOOSE n \in EntryNames : p = BackupEntryPath(n)]
                 ELSE Absent]
    /\ backup_manager = [has_backups |-> HasBackups(fs, dirs)]
    /\ updater = [current_version |-> None, update_info |-> None,
                  downloaded_file |-> None, progress_callback |-> FALSE]
    /\ versionFiles = [primary |-> None, fallback |-> None]
    /\ procRunning \in BOOLEAN
    /\ pc = "idle"
    /\ ret = Ret("none", "none", "")
    /\ loc = NoLoc
    /\ hist = NoHist
    /\ launcher_ui = NoWindow
    /\ launcher = NoLauncher

NextBackup ==
    \/ Alone(CreateBackupClean)
    \/ Alone(CreateBackupCopy)
    \/ Alone(DowngradeStart)
    \/ Alone(DowngradeClear)
    \/ Alone(DowngradeCopy)
    \/ Alone(DowngradeClean)
    \/ Alone(AppStarts)
    \/ Alone(AppExits)

SpecBackup == InitBackup /\ [][NextBackup]_vars

(***************************************************************************)
(* LauncherUI: the window, its worker threads and its Tk callbacks         *)
(***************************************************************************)
objVars == <<updater, backup_manager, fs, dirs, procRunning, versionFiles,
             pc, ret, loc, hist>>

\* get_app_executable_path()
GetAppExecutablePath == <<"inst">> \o APP_EXECUTABLE

\* most worker threads alive at once
MaxThreads == 2

\* a window that never takes itself for busy
NeverBusy(ui) == FALSE

\* `if self._is_updating: return` of the click and close handlers
Busy(ui) == ui.is_updating

\* self.destroy(): the window is gone and Tk runs no callback any more
Destroy(ui) == [ui EXCEPT !.window = FALSE, !.queue = {}]

\* threading.Thread(target=..., daemon=True).start(); at is the call the
\* thread makes next
StartThread(ui, at) == [ui EXCEPT !.threads = Append(@, at)]

MoveThread(ui, i, at) == [ui EXCEPT !.threads[i] = at]

\* the last statement of a worker: self.after(0, callback)
EndThread(ui, i, callback) ==
    [ui EXCEPT !.threads = SubSeq(@, 1, i - 1) \o SubSeq(@, i + 1, Len(@)),
               !.queue = @ \cup {callback}]

\* a Tk callback taken from the queue
Taken(ui, callback) == [ui EXCEPT !.queue = @ \ {callback}]

\* the thread a blocking operation ran on
Called(ui, op, thread) == [ui EXCEPT !.calls = @ \cup {<<op, thread>>}]

\* _start_checking (lines 236-239) run by Tk after the delay of __init__
\* (line 85): check_callback, which is run_launcher.check_for_updates
\* (main.py lines 93-104), and its update_with_result (ui.py lines 173-209)
StartChecking ==
    /\ launcher_ui.window
    /\ "start_checking" \in launcher_ui.queue
    /\ CheckForUpdates(UpdaterReleases)
    /\ launcher_ui' =
         LET ui == Called([Taken(launcher_ui, "start_checking")
                             EXCEPT !.is_checking = FALSE],
                          "check_for_updates", "ui")
         IN  IF ret'.kind = "UpdateInfo"
             THEN [ui EXCEPT !.shown = TRUE]
             ELSE Destroy(ui)
    /\ launcher' = launcher

\* _on_update_clicked with _start_update_ui; a click made while the buttons
\* were shown may reach the handler after it hid them
UpdateClicked ==
    /\ launcher_ui.window
    /\ launcher_ui.shown
    /\ Len(launcher_ui.threads) < MaxThreads
    /\ IF Busy(launcher_ui)
       THEN UNCHANGED <<launcher_ui, updater>>
       ELSE /\ launcher_ui' =
                 StartThread([launcher_ui EXCEPT !.is_updating = TRUE],
                             IF updater.current_version # None
                             THEN "create_backup" ELSE "download_update")
            /\ updater' = [updater EXCEPT !.progress_callback = TRUE]
    /\ UNCHANGED <<backup_manager, fs, dirs, procRunning, versionFiles, pc,
                   ret, loc, hist, launcher>>

\* _on_restore_clicked with _start_restore_ui; the button exists only with
\* has_backups_available (line 385)
RestoreClicked ==
    /\ launcher_ui.window
    /\ launcher_ui.shown
    /\ launcher_ui.has_backups_available
    /\ Len(launcher_ui.threads) < MaxThreads
    /\ launcher_ui' =
         IF Busy(launcher_ui) THEN launcher_ui
         ELSE StartThread([launcher_ui EXCEPT !.is_updating = TRUE],
                          "downgrade")
    /\ UNCHANGED <<objVars, launcher>>

\* _on_skip_clicked
SkipClicked ==
    /\ launcher_ui.window
    /\ launcher_ui.shown
    /\ launcher_ui' = IF Busy(launcher_ui) THEN launcher_ui
                      ELSE Destroy(launcher_ui)
    /\ UNCHANGED <<objVars, launcher>>

\* _on_close, the handler of WM_DELETE_WINDOW
CloseRequested ==
    /\ launcher_ui.window
    /\ launcher_ui' = IF Busy(launcher_ui) THEN launcher_ui
                      ELSE Destroy(launcher_ui)
    /\ UNCHANGED <<objVars, launcher>>

\* a worker that gives the update up when create_backup raises
WorkerCreateBackupOrStop ==
    /\ launcher_ui.window
    /\ \E i \in DOMAIN launcher_ui.threads :
         /\ launcher_ui.threads[i] = "create_backup"
         /\ CreateBackupClean \/ CreateBackupCopy
         /\ launcher_ui' =
              LET ui == Called(launcher_ui, "create_backup", "worker")
              IN  IF pc' # "idle" THEN ui
                  ELSE IF ret'.kind = "True"
                  THEN MoveThread(ui, i, "download_update")
                  ELSE EndThread(ui, i, "on_update_error")
    /\ launcher' = launcher

\* _download_and_apply, lines 492-506: create_backup when a version is
\* installed; a BackupError is passed over, any other exception ends the
\* worker in _on_update_error
WorkerCreateBackup ==
    /\ launcher_ui.window
    /\ \E i \in DOMAIN launcher_ui.threads :
         /\ launcher_ui.threads[i] = "create_backup"
         /\ CreateBackupClean \/ CreateBackupCopy
         /\ launcher_ui' =
              LET ui == Called(launcher_ui, "create_backup", "worker")
              IN  IF pc' # "idle" THEN ui
                  ELSE IF ret'.kind \in {"True", "BackupError"}
                  THEN MoveThread(ui, i, "download_update")
                  ELSE EndThread(ui, i, "on_update_error")
    /\ launcher' = launcher

\* _download_and_apply, lines 508-512: download_update
WorkerDownload ==
    /\ launcher_ui.window
    /\ \E i \in DOMAIN launcher_ui.threads :
         /\ launcher_ui.threads[i] = "download_update"
         /\ \/ DownloadStart({})
            \/ DownloadAttempt({Payload(Release.new)})
            \/ DownloadVerify
         /\ launcher_ui' =
              LET ui == Called(launcher_ui, "download_update", "worker")
              IN  IF pc' # "idle" THEN ui
                  ELSE IF ret'.kind = "Path"
                  THEN MoveThread(ui, i, "apply_update")
                  ELSE EndThread(ui, i, "on_update_error")
    /\ launcher' = launcher

\* _download_and_apply, lines 514-529: apply_update, then _on_update_success
\* or _on_update_error handed to Tk
WorkerApply ==
    /\ launcher_ui.window
    /\ \E i \in DOMAIN launcher_ui.threads :
         /\ launcher_ui.threads[i] = "apply_update"
         /\ \/ ApplyStart
            \/ ApplyProc
            \/ ApplyAside
            \/ ApplyRename
            \/ ApplyRestore
            \/ ApplyExtract
            \/ ApplyVersion
            \/ ApplyRollback
         /\ launcher_ui' =
              IF pc' # "idle" THEN launcher_ui
              ELSE IF ret'.kind = "True"
              THEN EndThread(launcher_ui, i, "on_update_success")
              ELSE EndThread(launcher_ui, i, "on_update_error")
    /\ launcher' = launcher

\* _restore_backup: downgrade, then _on_restore_success or _on_restore_error
\* handed to Tk
WorkerRestore ==
    /\ launcher_ui.window
    /\ \E i \in DOMAIN launcher_ui.threads :
         /\ launcher_ui.threads[i] = "downgrade"
         /\ \/ DowngradeStart
            \/ DowngradeClear
            \/ DowngradeCopy
            \/ DowngradeClean
         /\ launcher_ui' =
              LET ui == Called(launcher_ui, "downgrade", "worker")
              IN  IF pc' # "idle" THEN ui
                  ELSE IF ret'.kind = "True"
                  THEN EndThread(ui, i, "on_restore_success")
                  ELSE EndThread(ui, i, "on_restore_error")
    /\ launcher' = launcher

\* _on_update_success: cleanup, then _finish_update after 1500 ms
OnUpdateSuccess ==
    /\ launcher_ui.window
    /\ "on_update_success" \in launcher_ui.queue
    /\ Cleanup
    /\ launcher_ui' = [Taken(launcher_ui, "on_update_success")
                         EXCEPT !.queue = @ \cup {"finish_update"}]
    /\ launcher' = launcher

\* _finish_update
FinishUpdate ==
    /\ launcher_ui.window
    /\ "finish_update" \in launcher_ui.queue
    /\ launcher_ui' = Destroy(launcher_ui)
    /\ UNCHANGED <<objVars, launcher>>

\* _on_update_error: the buttons come back, the flag is cleared, cleanup
OnUpdateError ==
    /\ launcher_ui.window
    /\ "on_update_error" \in launcher_ui.queue
    /\ Cleanup
    /\ launcher_ui' = [Taken(launcher_ui, "on_update_error")
                         EXCEPT !.is_updating = FALSE]
    /\ launcher' = launcher

\* _on_restore_success: start the restored executable and close after
\* 1500 ms; without the executable the BackupError of line 656 leaves the
\* callback, which Tk reports, and nothing more is scheduled
OnRestoreSuccess ==
    /\ launcher_ui.window
    /\ "on_restore_success" \in launcher_ui.queue
    /\ IF Exists(fs, GetAppExecutablePath)
       THEN /\ procRunning' \in {TRUE, procRunning}
            /\ launcher' = [launcher EXCEPT !.starts = @ + 1]
            /\ launcher_ui' = [Taken(launcher_ui, "on_restore_success")
                                 EXCEPT !.queue = @ \cup {"finish_restore"}]
       ELSE /\ procRunning' = procRunning
            /\ launcher' = launcher
            /\ launcher_ui' = Taken(launcher_ui, "on_restore_success")
    /\ UNCHANGED <<updater, backup_manager, fs, dirs, versionFiles, pc, ret,
                   loc, hist>>

\* _finish_restore
FinishRestore ==
    /\ launcher_ui.window
    /\ "finish_restore" \in launcher_ui.queue
    /\ launcher_ui' = Destroy(launcher_ui)
    /\ UNCHANGED <<objVars, launcher>>

\* _on_restore_error: the buttons come back, the flag is cleared
OnRestoreError ==
    /\ launcher_ui.window
    /\ "on_restore_error" \in launcher_ui.queue
    /\ launcher_ui' = [Taken(launcher_ui, "on_restore_error")
                         EXCEPT !.is_updating = FALSE]
    /\ UNCHANGED <<objVars, launcher>>

(***************************************************************************)
(* The launcher window in its checking mode, as run_launcher asks for it   *)
(***************************************************************************)
\* the directory of BackupManager with the executable in it, and an empty
\* backup directory
InstalledPos ==
    [n \in EntryNames |-> IF n = APP_EXECUTABLE THEN File(<<Release.old>>)
                          ELSE Absent]

EmptyTree == [n \in EntryNames |-> Absent]

\* LauncherUI.__init__ (lines 42-85) with update_info=None and a
\* check_callback, around an Updater and the BackupManager of line 66
InitWindow ==
    /\ \E cv \in {None, Some(V010)}, pos \in {InstalledPos},
          backup \in {EmptyTree, InstalledPos} :
         /\ updater = [current_version |-> cv, update_info |-> None,
                       downloaded_file |-> None, progress_callback |-> FALSE]
         /\ fs = [p \in AllPaths |->
                    IF \E n \in EntryNames : p = PosPath(n)
                    THEN pos[CHOOSE n \in EntryNames : p = PosPath(n)]
                    ELSE IF \E n \in EntryNames : p = BackupEntryPath(n)
                    THEN backup[CHOOSE n \in EntryNames :
                                   p = BackupEntryPath(n)]
                    ELSE IF cv = None THEN Absent
                    ELSE InstalledTree(Release.old)[p]]
         /\ dirs = (IF cv = None THEN {} ELSE {"inst"}) \cup {"pos", "backup"}
         /\ versionFiles = [primary |-> IF cv = None THEN None
                                        ELSE Some(InitialRecord(Val(cv))),
                            fallback |-> None]
    /\ backup_manager = [has_backups |-> HasBackups(fs, dirs)]
    /\ procRunning = FALSE
    /\ pc = "idle"
    /\ ret = Ret("none", "none", "")
    /\ loc = NoLoc
    /\ hist = NoHist
    /\ \E has_backups_available \in BOOLEAN :
         launcher_ui = [window |-> TRUE, is_updating |-> FALSE,
                        is_checking |-> TRUE,
                        has_backups_available |-> has_backups_available,
                        shown |-> FALSE, threads |-> <<>>,
                        queue |-> {"start_checking"}, calls |-> {}]

\* the window alone, with no run_launcher around it
InitUI ==
    /\ InitWindow
    /\ launcher = NoLauncher

\* the steps of the worker threads
WorkerStep ==
    \/ WorkerCreateBackup
    \/ WorkerDownload
    \/ WorkerApply
    \/ WorkerRestore

\* the callbacks Tk runs on the window's thread
TkCallback ==
    \/ StartChecking
    \/ OnUpdateSuccess
    \/ FinishUpdate
    \/ OnUpdateError
    \/ OnRestoreSuccess
    \/ FinishRestore
    \/ OnRestoreError

NextUI ==
    \/ UpdateClicked
    \/ RestoreClicked
    \/ SkipClicked
    \/ CloseRequested
    \/ WorkerStep
    \/ TkCallback

SpecUI == InitUI /\ [][NextUI]_vars

\* a started thread runs to its end, and Tk's mainloop runs every callback
\* handed to it; the user owes no click
SpecUIFair == SpecUI /\ WF_vars(WorkerStep) /\ WF_vars(TkCallback)

(***************************************************************************)
(* The launcher process: main() around run_launcher()                      *)
(***************************************************************************)
\* the parameters of LauncherUI.__init__ (ui.py lines 42-48)
LauncherUIParameters ==
    {"updater", "update_info", "check_callback", "has_backups_available"}

\* the keyword arguments run_launcher passes to LauncherUI (main.py lines
\* 107-114)
RunLauncherArguments ==
    {"updater", "update_info", "on_update_complete", "on_skip",
     "on_start_app", "check_callback"}

\* start_pos_application: start the executable when it exists, report that
\* it was not found otherwise
StartPosApplication(f) ==
    IF Exists(f, GetAppExecutablePath) THEN "started" ELSE "not_found"

\* a handler that only reports the error
FatalExit(f) == "none"

\* main, lines 136-141: the handler of an Exception of run_launcher
FatalLaunch(f) == StartPosApplication(f)

\* run_launcher, lines 66-77: the installed version, the Updater and
\* should_start_app; json.load raises on a record that is not JSON
RunLauncherVersion ==
    /\ launcher.at = "run_launcher"
    /\ \E readable \in BOOLEAN :
         IF versionFiles.primary # None /\ ~readable
         THEN /\ launcher' = [launcher EXCEPT !.at = "fatal",
                                              !.error = "JSONDecodeError"]
              /\ updater' = updater
         ELSE /\ launcher' = [launcher EXCEPT !.at = "window",
                                              !.should_start_app = TRUE]
              /\ updater' = [current_version |->
                                GetInstalledVersionOfPos(versionFiles),
                            update_info |-> None, downloaded_file |-> None,
                            progress_callback |-> FALSE]
    /\ UNCHANGED <<backup_manager, fs, dirs, procRunning, versionFiles, pc,
                   ret, loc, hist, launcher_ui>>

\* run_launcher, lines 107-118: LauncherUI(...) and mainloop(); a keyword
\* argument that __init__ does not take raises TypeError before the window
\* is made
RunLauncherWindow ==
    /\ launcher.at = "window"
    /\ IF RunLauncherArguments \subseteq LauncherUIParameters
       THEN /\ launcher' = [launcher EXCEPT !.at = "mainloop"]
            /\ launcher_ui' =
                 [NoWindow EXCEPT !.window = TRUE, !.is_checking = TRUE,
                                  !.queue = {"start_checking"}]
       ELSE /\ launcher' = [launcher EXCEPT !.at = "fatal",
                                            !.error = "TypeError"]
            /\ launcher_ui' = launcher_ui
    /\ UNCHANGED objVars

\* run_launcher, lines 121-122, after mainloop() returned, and main, lines
\* 136-141, after an Exception: start_pos_application
MainLaunch ==
    /\ IF launcher.at = "mainloop"
       THEN ~launcher_ui.window /\ launcher.should_start_app
       ELSE launcher.at = "fatal"
    /\ LET launched == IF launcher.at = "fatal" THEN FatalLaunch(fs)
                       ELSE StartPosApplication(fs)
       IN  launcher' =
             [launcher EXCEPT
                !.at = "done",
                !.launched = launched,
                !.starts = IF launched = "started" THEN @ + 1 ELSE @]
    /\ procRunning' \in IF launcher'.launched = "started"
                         THEN {TRUE, procRunning} ELSE {procRunning}
    /\ UNCHANGED <<updater, backup_manager, fs, dirs, versionFiles, pc, ret,
                   loc, hist, launcher_ui>>

\* main, lines 133-135: KeyboardInterrupt during run_launcher, sys.exit(0)
KeyboardInterrupt ==
    /\ launcher.at \in {"run_launcher", "window", "mainloop"}
    /\ launcher' = [launcher EXCEPT !.at = "interrupted"]
    /\ UNCHANGED <<objVars, launcher_ui>>

\* the machine a launcher is started on
InitLauncher ==
    /\ \E cv \in CurrentVersions, backup \in EntryTrees,
          inst \in {[p \in AllPaths |-> Absent], InstalledTree(Release.old),
                    InstalledTree(Release.new)} :
         /\ versionFiles = [primary |-> IF cv = None THEN None
                                        ELSE Some(InitialRecord(Val(cv))),
                            fallback |-> None]
         /\ fs = [p \in AllPaths |->
                    IF \E n \in EntryNames : p = PosPath(n)
                    THEN InstalledPos[CHOOSE n \in EntryNames : p = PosPath(n)]
                    ELSE IF \E n \in EntryNames : p = BackupEntryPath(n)
                    THEN backup[CHOOSE n \in EntryNames :
                                   p = BackupEntryPath(n)]
                    ELSE inst[p]]
         /\ dirs = (IF Exists(inst, GetAppExecutablePath) THEN {"inst"} ELSE {})
                   \cup {"pos", "backup"}
    /\ updater = [current_version |-> None, update_info |-> None,
                  downloaded_file |-> None, progress_callback |-> FALSE]
    /\ backup_manager = [has_backups |-> HasBackups(fs, dirs)]
    /\ procRunning \in BOOLEAN
    /\ pc = "idle"
    /\ ret = Ret("none", "none", "")
    /\ loc = NoLoc
    /\ hist = NoHist
    /\ launcher_ui = NoWindow
    /\ launcher = [NoLauncher EXCEPT !.at = "run_launcher"]

\* the statements of main() on the main thread
MainStep ==
    \/ RunLauncherVersion
    \/ RunLauncherWindow
    \/ MainLaunch

NextLauncher ==
    \/ MainStep
    \/ KeyboardInterrupt

\* the main thread runs on; nobody owes an interrupt
SpecLauncher == InitLauncher /\ [][NextLauncher]_vars /\ WF_vars(MainStep)

\* run_launcher at line 118: mainloop() of a LauncherUI built as its
\* __init__ declares, with should_start_app as line 77 leaves it
InitRun ==
    /\ InitWindow
    /\ launcher = [NoLauncher EXCEPT !.at = "mainloop",
                                     !.should_start_app = TRUE]

\* the window's events while mainloop() runs, and lines 121-122 once it
\* has returned
NextRun ==
    \/ NextUI
    \/ MainLaunch

SpecRun == InitRun /\ [][NextRun]_vars

ApplyReturned == pc = "idle" /\ ret.op = "apply"

\* apply_update got past its preconditions and raised
ApplyRaised ==
    /\ ApplyReturned
    /\ ret.kind = "UpdateError"
    /\ ret.why \notin {"no_file", "no_info"}

InstallPaths == {AppPath} \cup {ZipMembers[i] : i \in 1..Len(ZipMembers)}

SameInstall(f, g) == \A p \in InstallPaths : f[p] = g[p]

\* the archive that was downloaded is in place and all its members are
\* extracted
CompleteNew(f) ==
    LET new == hist.pre[DownloadPath(Val(updater.update_info).name)]
    IN  /\ IsZip(new)
        /\ f[AppPath] = new
        /\ \A i \in 1..Len(ZipMembers) : f[ZipMembers[i]] = MemberOf(new)

\* C1: whenever apply_update raises after one of its steps failed, the
\* install directory holds either the complete pre-apply installation or the
\* complete new one.
C1_ApplyLeavesOldOrNew ==
    (ApplyRaised /\ hist.faults = 1) =>
        SameInstall(fs, hist.pre) \/ CompleteNew(fs)

RenameInFailedAfterAside == ApplyReturned /\ hist.asideDone /\ hist.renameFailed

C6_KillFailureChangesNothing ==
    (ApplyReturned /\ hist.killFailed) =>
        /\ ret = Ret("apply", "UpdateError", "busy")
        /\ fs = hist.pre
        /\ versionFiles = hist.preVersion

C6_Witness ==
    /\ ApplyReturned
    /\ hist.killFailed
    /\ procRunning
    /\ Exists(fs, AppPath)
    /\ Exists(fs, Val(updater.downloaded_file))

(***************************************************************************)
(* Properties of download_update (SpecDownload)                            *)
(***************************************************************************)
DownloadReturnedPath == pc = "idle" /\ ret.op = "download" /\ ret.kind = "Path"

\* the hex part of an "algorithm:hex" checksum string
DeclaredHex(checksum_str) ==
    LET colon == IndexOf(checksum_str, ":", 1)
    IN  IF colon > 0 THEN SubSeq(checksum_str, colon + 1, Len(checksum_str))
        ELSE checksum_str

\* C3: with a non-empty checksum, download_update returns a path only if the
\* hash of the streamed file equals the declared hex.
C3_PathOnlyIfHashMatches ==
    (DownloadReturnedPath /\ Truthy(Val(hist.info).checksum)) =>
        Lower(DeclaredHex(Val(Val(hist.info).checksum)))
            = CalculateSha256(fs[DownloadPath(Val(hist.info).name)].d)

IsUpdateError(a) == a \in {"request", "stream"}

\* C8: at most MAX_DOWNLOAD_RETRIES attempts; an attempt follows only an
\* attempt that raised UpdateError; the first success ends the loop;
\* UpdateError with the last error is raised exactly when all attempts raised
\* UpdateError; another exception ends the call at once.
C8_RetryDiscipline ==
    LET a == hist.attempts
        n == Len(hist.attempts)
    IN  ret.op = "download" =>
            /\ n <= MAX_DOWNLOAD_RETRIES
            /\ \A i \in 1..(n - 1) : IsUpdateError(a[i])
            /\ pc = "dl_attempt" => n < MAX_DOWNLOAD_RETRIES
            /\ (n > 0 /\ a[n] = "ok") => pc # "dl_attempt"
            /\ (n > 0 /\ a[n] = "Exception") =>
                   pc = "idle" /\ ret.kind = "Exception"
            /\ (pc = "idle" /\ n > 0) =>
                   ((ret.kind = "UpdateError" /\ IsUpdateError(ret.why))
                    <=> (n = MAX_DOWNLOAD_RETRIES /\ IsUpdateError(a[n])))
            /\ (pc = "idle" /\ n > 0 /\ IsUpdateError(a[n])) => ret.why = a[n]

C8_Witness ==
    /\ pc = "idle"
    /\ ret = Ret("download", "UpdateError", "stream")
    /\ hist.attempts = <<"request", "stream", "stream">>

NonDecreasing(q) == \A i \in 1..(Len(q) - 1) : q[i] <= q[i + 1]

\* C9 as claimed: in a successful call the whole sequence of reported values
\* is non-decreasing and its last value is the size of the file.
C9_WholeCallMonotone ==
    DownloadReturnedPath =>
        /\ NonDecreasing(hist.progress)
        /\ hist.progress # <<>> =>
               hist.progress[Len(hist.progress)]
                   = Len(fs[DownloadPath(Val(hist.info).name)].d)

LastAttemptProgress ==
    SubSeq(hist.progress, hist.lastStart + 1, Len(hist.progress))

\* C9 as amended: in a successful call the values reported during the last
\* (successful) attempt are non-decreasing, there is one per chunk when a
\* callback is set, and the last one is the size of the file.
C9_LastAttemptMonotone ==
    DownloadReturnedPath =>
        LET q == LastAttemptProgress
            size == Len(fs[DownloadPath(Val(hist.info).name)].d)
        IN  /\ NonDecreasing(q)
            /\ q # <<>> => q[Len(q)] = size
            /\ updater.progress_callback => Len(q) = NChunks(fs[DownloadPath(Val(hist.info).name)].d)

C9_Witness ==
    /\ DownloadReturnedPath
    /\ Len(hist.attempts) > 1
    /\ ~NonDecreasing(hist.progress)
    /\ Len(LastAttemptProgress) > 1

(***************************************************************************)
(* Properties of check_for_updates (SpecCheck)                             *)
(***************************************************************************)
\* C10: a release tag that does not parse as a version never yields an
\* UpdateInfo, whatever is installed.
C10_UnparseableTagNoUpdate ==
    (ret.op = "check" /\ hist.tag # None
        /\ ~UpdaterParseVersion(LStripSet(Val(hist.tag), {"v", "V"})).ok)
    => ret.kind # "UpdateInfo"

\* a version string in the strict form: one optional leading v or V, then
\* exactly three dot-separated runs of digits
WellFormed(version_str) ==
    LET body == IF version_str # <<>> /\ Head(version_str) \in {"v", "V"}
                THEN Tail(version_str) ELSE version_str
    IN  /\ Len(Split(body)) = 3
        /\ \A i \in 1..3 : AllDigits(Split(body)[i])

\* the rank of a well-formed version in the order on (major, minor, patch),
\* every component below 1000
VersionRank(version_str) ==
    LET body == IF Head(version_str) \in {"v", "V"}
                THEN Tail(version_str) ELSE version_str
        n(i) == DigitsVal(Split(body)[i], 0)
    IN  n(1) * 1000000 + n(2) * 1000 + n(3)

WithoutLeadingV(tag) == IF Head(tag) \in {"v", "V"} THEN Tail(tag) ELSE tag

CheckedWellFormed ==
    /\ ret.op = "check"
    /\ hist.tag # None
    /\ hist.assets # None
    /\ Val(hist.assets) # <<>>
    /\ updater.current_version # None
    /\ WellFormed(Val(updater.current_version))
    /\ WellFormed(Val(hist.tag))

\* C11: with a well-formed installed version and a well-formed tag of a
\* release that has an asset, check_for_updates returns an UpdateInfo whose
\* version is the tag without its leading v exactly when the tag is strictly
\* greater on (major, minor, patch), and None otherwise.
C11_UpdateIffStrictlyGreater ==
    CheckedWellFormed =>
        IF VersionRank(Val(hist.tag)) > VersionRank(Val(updater.current_version))
        THEN /\ ret.kind = "UpdateInfo"
             /\ Val(updater.update_info).version = WithoutLeadingV(Val(hist.tag))
        ELSE ret.kind = "None"

C11_Witness ==
    /\ CheckedWellFormed
    /\ ret.kind = "None"
    /\ VersionRank(Val(hist.tag)) = VersionRank(Val(updater.current_version))
    /\ updater.update_info # None

\* C25: against an installed version, a tag that is not, after one leading
\* v or V, exactly three dot-separated runs of digits is never reported as
\* an update: it is not padded or truncated into a triple.
C25_MalformedNeverNewer ==
    (ret.op = "check" /\ hist.tag # None /\ updater.current_version # None
        /\ ~WellFormed(Val(hist.tag)))
    => ret.kind # "UpdateInfo"

Sign(n) == IF n < 0 THEN 0 - 1 ELSE IF n > 0 THEN 1 ELSE 0

ComparedWellFormed ==
    /\ ret.op = "compare_versions"
    /\ WellFormed(hist.arg[1])
    /\ WellFormed(hist.arg[2])

\* C26: on well-formed version strings a and b, compare_versions(a, b) is
\* the sign of the order of the (major, minor, patch) triples, it is the
\* opposite of compare_versions(b, a), and compare_versions(a, a) is 0.
C26_CompareIsSignOfOrder ==
    ComparedWellFormed =>
        LET a == hist.arg[1]
            b == hist.arg[2]
        IN  /\ ret.kind = "int"
            /\ ret.value = Sign(VersionRank(a) - VersionRank(b))
            /\ CompareVersionsValue(b, a) = [ok |-> TRUE, v |-> 0 - ret.value]
            /\ CompareVersionsValue(a, a) = [ok |-> TRUE, v |-> 0]

\* 0.10.0 against 0.9.0: greater as a triple, smaller as a string
C26_Witness ==
    /\ ComparedWellFormed
    /\ hist.arg[1] = <<"0", ".", "1", "0", ".", "0">>
    /\ hist.arg[2] = <<"0", ".", "9", ".", "0">>
    /\ ret.value = 1

\* a worker thread of the window is about to make, or is inside, the call
AtThread(ui, at) == \E i \in DOMAIN ui.threads : ui.threads[i] = at

\* C27: with a version installed, the worker of the update flow reaches
\* download_update only out of a create_backup call that has returned or
\* raised BackupError, and apply_update only out of a finished download; a
\* BackupError of create_backup leads on to download_update.
C27_BackupBeforeUpdate ==
    [][updater.current_version # None =>
         /\ (AtThread(launcher_ui', "download_update")
               /\ ~AtThread(launcher_ui, "download_update"))
             => /\ AtThread(launcher_ui, "create_backup")
                /\ pc' = "idle"
                /\ ret'.op = "create_backup"
                /\ ret'.kind \in {"True", "BackupError"}
         /\ (AtThread(launcher_ui', "apply_update")
               /\ ~AtThread(launcher_ui, "apply_update"))
             => /\ AtThread(launcher_ui, "download_update")
                /\ ret' = Ret("download", "Path", "")
         /\ (ret'.op \in {"download", "apply"} /\ ret.op = "create_backup")
             => pc = "idle" /\ ret.kind \in {"True", "BackupError"}
         /\ (AtThread(launcher_ui, "create_backup")
               /\ ~AtThread(launcher_ui', "create_backup")
               /\ ret'.kind = "BackupError")
             => /\ AtThread(launcher_ui', "download_update")
                /\ "on_update_error" \notin launcher_ui'.queue]_vars

\* the worker about to download after create_backup raised BackupError
C27_Witness ==
    /\ updater.current_version # None
    /\ pc = "idle"
    /\ ret.op = "create_backup"
    /\ ret.kind = "BackupError"
    /\ AtThread(launcher_ui, "download_update")

\* C38: in the update flow of the window, with a version installed, every
\* step of apply_update that changes an installed file finds in the backup
\* directory a complete copy of the installed tree, neither empty nor
\* partial.
C38_SnapshotBeforeApply ==
    [][(updater.current_version # None
          /\ AtThread(launcher_ui, "apply_update")
          /\ \E p \in AllPaths : p[1] = "inst" /\ fs'[p] # fs[p])
         => /\ "backup" \in dirs
            /\ \E n \in EntryNames : Exists(fs, BackupEntryPath(n))
            /\ \A n \in EntryNames :
                  fs[BackupEntryPath(n)] = fs[PosPath(n)]]_vars

C22_DownloadInfoChoice ==
    [][(pc = "idle" /\ ret'.op = "download") =>
         IF hist'.arg = None /\ updater.update_info = None
         THEN /\ ret' = Ret("download", "UpdateError", "no_info")
              /\ pc' = "idle"
              /\ dirs' = dirs
              /\ fs' = fs
              /\ updater' = updater
              /\ hist'.attempts = <<>>
         ELSE /\ pc' = "dl_attempt"
              /\ loc'.info = IF hist'.arg # None THEN hist'.arg
                              ELSE updater.update_info]_vars

\* a download with an explicit info that differs from the one the last
\* check left in the Updater
C22_Witness ==
    /\ pc = "dl_attempt"
    /\ hist.arg # None
    /\ updater.update_info # None
    /\ hist.arg # updater.update_info
    /\ loc.info = hist.arg

\* C23: cleanup deletes no file but the one recorded in downloaded_file
\* and removes no directory but the temp directory, and that one only
\* when no entry is left in it after the deletion.
C23_CleanupFrame ==
    [][ret'.op = "cleanup" =>
         /\ \A p \in AllPaths :
               fs'[p] # fs[p] =>
                   updater.downloaded_file = Some(p) /\ fs'[p] = Absent
         /\ dirs' \subseteq dirs
         /\ dirs \ dirs' \subseteq {"temp"}
         /\ "temp" \notin dirs' =>
               \A p \in AllPaths : p[1] = "temp" => ~Exists(fs', p)]_vars

\* the download deleted by cleanup from a temp directory that stays
\* because it holds another file
C23_Witness ==
    /\ pc = "idle"
    /\ ret.op = "cleanup"
    /\ updater.downloaded_file # None
    /\ ~Exists(fs, Val(updater.downloaded_file))
    /\ Exists(fs, TempOther)
    /\ "temp" \in dirs

\* C24: after a check_for_updates call that returned None or raised, the
\* Updater holds no UpdateInfo, so that download_update() without an
\* argument fails.
C24_CheckSupersedesInfo ==
    (pc = "idle" /\ ret.op = "check" /\ ret.kind # "UpdateInfo")
        => updater.update_info = None

\* C29: whatever the moment the target application is started at, and with
\* process-table queries that may fail, no step of apply_update or of
\* downgrade deletes, renames or overwrites an installed file while the
\* target process is running.
C29_NoMutationWhileRunning ==
    [][(pc # "idle" /\ ret.op \in {"apply", "downgrade"}
          /\ \E p \in AllPaths :
                p[1] \in {"inst", "pos"} /\ fs'[p] # fs[p])
         => ~procRunning]_vars

\* C30: when safe_rename returns True the content of the source is at the
\* destination and the source is gone; when it returns False the source
\* and the destination hold what they held before the call.
C30_RenameAllOrNothing ==
    ret.op = "safe_rename" =>
        LET src == hist.arg[1]
            dst == hist.arg[2]
        IN  IF ret.kind = "True"
            THEN fs[dst] = hist.pre[src] /\ ~Exists(fs, src)
            ELSE fs[src] = hist.pre[src] /\ fs[dst] = hist.pre[dst]

SafeReturned == ret.op \in {"safe_delete", "safe_rename"}

\* what holds of every safe_delete and safe_rename call: it returns True or
\* False after one to max_retries attempts, every attempt but the last
\* ended in a lock error, a lock error ends the call only as the last of
\* max_retries attempts, True is returned exactly when the last attempt
\* succeeded, and safe_delete of a missing path returns True at once
BoundedRetries ==
    LET t == hist.attempts
        n == Len(hist.attempts)
    IN  /\ ret.kind \in {"True", "False"}
        /\ n \in 1..SAFE_MAX_RETRIES
        /\ \A k \in 1..(n - 1) : t[k] = "perm"
        /\ t[n] = "perm" => n = SAFE_MAX_RETRIES
        /\ ret.kind = "True" <=> t[n] = "ok"
        /\ (ret.op = "safe_delete" /\ ~Exists(hist.pre, hist.arg[1]))
           => ret.kind = "True" /\ n = 1 /\ fs = hist.pre

\* C31 as claimed: moreover False is returned only after max_retries
\* attempts.
C31_FalseOnlyAfterAllRetries ==
    SafeReturned =>
        /\ BoundedRetries
        /\ ret.kind = "False" => Len(hist.attempts) = SAFE_MAX_RETRIES

\* C31 as amended: False is returned after max_retries attempts that all
\* ended in a lock error, or at once by the attempt that raised another
\* exception.
C31_FalseAfterRetriesOrOtherError ==
    SafeReturned =>
        /\ BoundedRetries
        /\ ret.kind = "False" =>
              \/ Len(hist.attempts) = SAFE_MAX_RETRIES
              \/ hist.attempts[Len(hist.attempts)] = "err"

\* a deletion that succeeds on the last attempt after lock errors
C31_Witness ==
    /\ ret = Ret("safe_delete", "True", "")
    /\ hist.attempts = <<"perm", "perm", "ok">>
    /\ Exists(hist.pre, hist.arg[1])
    /\ ~Exists(fs, hist.arg[1])

\* C32: an apply_update that returns True with an installed-version record
\* present leaves, in the record it wrote at either location, installed_at
\* and last_update_check as the existing record had them.
C32_RecordFieldsPreserved ==
    (ApplyReturned /\ ret.kind = "True" /\ hist.preVersion.primary # None) =>
        \A l \in {"primary", "fallback"} :
            versionFiles[l] # hist.preVersion[l] =>
                LET existing == IF hist.preVersion[l] # None
                                THEN Val(hist.preVersion[l])
                                ELSE Val(hist.preVersion.primary)
                    written == Val(versionFiles[l])
                IN  /\ written.installed_at = existing.installed_at
                    /\ written.last_update_check = existing.last_update_check

\* C33: after cleanup returns, no file the Updater wrote, complete or
\* partial, is left in the temp download directory.
C33_NoArtifactAfterCleanup ==
    (pc = "idle" /\ ret.op = "cleanup") =>
        \A p \in AllPaths :
            (p[1] = "temp" /\ p # TempOther) => ~Exists(fs, p)

\* C34: the file apply_update moves into the install path is a completely
\* written download, never a partially written one: a failed download_update
\* leaves nothing that apply_update installs.
C34_InstallsCompleteDownloadOnly ==
    [][(pc = "ap_rename" /\ pc' = "ap_extract") =>
         /\ Len(fs[Val(updater.downloaded_file)].d) = PayloadLen
         /\ fs'[AppPath] = fs[Val(updater.downloaded_file)]]_vars

\* the last call was an apply_update that returned True or that moved the
\* downloaded file away before it failed
AppliedOnce ==
    /\ pc = "idle"
    /\ ret.op = "apply"
    /\ updater.downloaded_file # None
    /\ Exists(hist.pre, Val(updater.downloaded_file))
    /\ ret.kind = "True" \/ ~Exists(fs, Val(updater.downloaded_file))

\* C35: an apply_update called right after an apply_update that returned
\* True, or that failed after moving the downloaded file, raises UpdateError
\* for the missing file and changes nothing.
C35_OneApplyPerDownload ==
    [][(AppliedOnce /\ ret'.op = "apply" /\ hist' # hist) =>
         /\ ret' = Ret("apply", "UpdateError", "no_file")
         /\ pc' = "idle"
         /\ fs' = fs
         /\ dirs' = dirs
         /\ versionFiles' = versionFiles
         /\ procRunning' = procRunning
         /\ updater' = updater]_vars

\* the second apply_update after one that installed release 0.2.0
C35_Witness ==
    /\ pc = "idle"
    /\ ret = Ret("apply", "UpdateError", "no_file")
    /\ hist.pre = fs
    /\ updater.downloaded_file # None
    /\ versionFiles.primary # None
    /\ Val(versionFiles.primary).version = V020
    /\ Val(versionFiles.primary).updated_at = "now"

\* C13: once apply_update has renamed the downloaded artifact into the
\* install path and extracted it, every outcome of writing the
\* installed-version record ends the call with True and leaves the
\* installed files as they are (no rollback).
C13_VersionWriteFailureSwallowed ==
    [][pc = "ap_version" =>
         /\ pc' = "idle"
         /\ ret' = Ret("apply", "True", "")
         /\ fs' = fs]_vars

\* C14: after every apply_update call that returns True, the record read
\* by get_installed_version_of_pos holds update_info.version, so that a
\* check against the same release finds nothing newer.
C14_RecordHoldsInstalledVersion ==
    (ApplyReturned /\ ret.kind = "True") =>
        LET read == GetInstalledVersionOfPos(versionFiles)
        IN  /\ read = Some(Val(updater.update_info).version)
            /\ ~IsNewerVersion(read, Val(updater.update_info).version)

(***************************************************************************)
(* Properties of _find_asset (SpecFindAsset)                               *)
(***************************************************************************)
FoundAsset ==
    /\ ret.op = "check"
    /\ ret.kind = "UpdateInfo"
    /\ hist.assets # None

ExactlyNamed(assets, i) == \E k \in 1..Len(assets) : assets[k].name = PatternList[i]

HoldsPattern(name) == \E i \in 1..Len(PatternList) : Contains(name, PatternList[i])

\* C12: _find_asset returns the asset named exactly as the highest-priority
\* pattern that some asset equals; an asset that only holds a pattern is
\* returned only when no asset equals a pattern; the first asset only when
\* no asset holds a pattern.
C12_FindAssetHonoursPriority ==
    FoundAsset =>
        LET assets == Val(hist.assets)
            found == Val(updater.update_info).name
            exact == {i \in 1..Len(PatternList) : ExactlyNamed(assets, i)}
        IN  IF exact # {}
            THEN found = PatternList[CHOOSE i \in exact : \A j \in exact : i <= j]
            ELSE IF \E k \in 1..Len(assets) : HoldsPattern(assets[k].name)
            THEN HoldsPattern(found)
            ELSE found = assets[1].name

(***************************************************************************)
(* Properties of the LauncherUI (SpecUI, SpecUIFair)                       *)
(***************************************************************************)
\* C15: at most one worker thread is alive at any time, and a click that
\* arrives while an operation is in progress starts no thread.
C15_OneWorkerAtATime ==
    [][/\ Len(launcher_ui'.threads) <= 1
       /\ launcher_ui.is_updating =>
             Len(launcher_ui'.threads) <= Len(launcher_ui.threads)]_vars

\* a restore worker in the middle of downgrade while the window takes
\* clicks on its buttons
C15_Witness ==
    /\ launcher_ui.window
    /\ launcher_ui.shown
    /\ launcher_ui.has_backups_available
    /\ launcher_ui.threads = <<"downgrade">>
    /\ pc = "dg_copy"

\* C16: the window is not destroyed while a worker thread is alive: a close
\* request or a skip click between the start of an operation and the end of
\* its worker leaves the window open.
C16_NoCloseDuringOperation ==
    ~launcher_ui.window => launcher_ui.threads = <<>>

\* the window closed by the user after a restore that failed
C16_Witness ==
    /\ ~launcher_ui.window
    /\ ~launcher_ui.is_updating
    /\ <<"downgrade", "worker">> \in launcher_ui.calls
    /\ ret.op = "downgrade"
    /\ ret.kind = "BackupError"

\* C17: every operation started from the window ends with the window
\* closed or with the busy flag cleared again.
C17_BusyEventuallyEnds ==
    launcher_ui.is_updating ~>
        (~launcher_ui.window \/ ~launcher_ui.is_updating)

\* C18: the release check, the download and the copies of create_backup
\* and downgrade run on a worker thread, never on the window's thread.
C18_BlockingCallsOnWorker ==
    \A c \in launcher_ui.calls : c[2] = "worker"

(***************************************************************************)
(* Properties of main (SpecLauncher)                                       *)
(***************************************************************************)
Launched ==
    launcher.launched # "none" =>
        launcher.launched = StartPosApplication(fs)

\* C19: on every launcher run, whatever its outcome, the launcher
\* eventually attempts to start the main application: it starts the
\* executable if it exists and reports not-found otherwise.
C19_AlwaysLaunches ==
    <>(launcher.launched # "none") /\ []Launched

\* C19, amended: the same unless run_launcher is interrupted from the
\* keyboard, after which the launcher exits without starting anything.
C19_LaunchesUnlessInterrupted ==
    /\ <>(launcher.launched # "none" \/ launcher.at = "interrupted")
    /\ []Launched
    /\ [](launcher.at = "interrupted" => launcher.launched = "none")

\* the application started by the handler of main after an exception left
\* run_launcher
C19_Witness ==
    /\ launcher.at = "done"
    /\ launcher.error # ""
    /\ launcher.launched = "started"

(***************************************************************************)
(* Properties of the BackupManager (SpecBackup)                            *)
(***************************************************************************)
DowngradeReturned == pc = "idle" /\ ret.op = "downgrade"

PosTree(f) == [n \in EntryNames |-> f[PosPath(n)]]

BackupEmpty(f) == \A n \in EntryNames : ~Exists(f, BackupEntryPath(n))

\* C4: a downgrade called while the backup directory holds no snapshot
\* raises BackupError and leaves the installed directory as it was.
C4_DowngradeWithoutSnapshotRaises ==
    (DowngradeReturned /\ BackupEmpty(hist.pre)) =>
        /\ ret.kind = "BackupError"
        /\ PosTree(fs) = PosTree(hist.pre)

\* C5: create_backup succeeds on an existing installed directory when no
\* file operation fails, and a downgrade right after it, the target not
\* running and no file operation failing, succeeds, leaves the installed
\* entries as they were before create_backup and the backup directory empty.
C5_BackupThenDowngradeRoundTrip ==
    /\ (pc = "idle" /\ ret.op = "create_backup" /\ ret.why # "no_pos"
            /\ ~hist.fault)
       => ret.kind = "True"
    /\ (DowngradeReturned /\ hist.afterCreate /\ ~hist.wasRunning
            /\ ~hist.fault)
       => /\ ret.kind = "True"
          /\ PosTree(fs) = PosTree(hist.preCreate)
          /\ BackupEmpty(fs)

CreateBackupReturnedTrue ==
    pc = "idle" /\ ret = Ret("create_backup", "True", "")

\* C20: after create_backup returns True, the backup directory holds one
\* entry for each entry of the installed directory other than the backup
\* directory, with the same content, and no other entry; the installed
\* entries are as they were.
C20_BackupIsExactCopy ==
    CreateBackupReturnedTrue =>
        \A n \in EntryNames :
            /\ fs[BackupEntryPath(n)] = fs[PosPath(n)]
            /\ fs[PosPath(n)] = hist.pre[PosPath(n)]

\* a snapshot taken over an older one that held an entry the installed
\* directory no longer has, and another content of an entry it still has
C20_Witness ==
    /\ CreateBackupReturnedTrue
    /\ \E n \in EntryNames :
          /\ Exists(hist.pre, BackupEntryPath(n))
          /\ ~Exists(fs, PosPath(n))
    /\ \E n \in EntryNames :
          /\ Exists(hist.pre, BackupEntryPath(n))
          /\ Exists(fs, PosPath(n))
          /\ hist.pre[BackupEntryPath(n)] # fs[PosPath(n)]

\* C28: after downgrade returns True, the installed directory holds, the
\* backup directory apart, exactly the entries the snapshot held at the
\* call, with the snapshot's contents, and the backup directory exists and
\* is empty.
C28_DowngradeRestoresSnapshot ==
    (DowngradeReturned /\ ret.kind = "True") =>
        /\ \A n \in EntryNames :
              fs[PosPath(n)] = hist.pre[BackupEntryPath(n)]
        /\ BackupEmpty(fs)
        /\ {"pos", "backup"} \subseteq dirs

\* a downgrade over an installed directory that had gained an entry and had
\* another content in an entry since the snapshot
C28_Witness ==
    /\ DowngradeReturned
    /\ ret.kind = "True"
    /\ \E n \in EntryNames :
          /\ Exists(hist.pre, PosPath(n))
          /\ ~Exists(hist.pre, BackupEntryPath(n))
          /\ ~Exists(fs, PosPath(n))
    /\ \E n \in EntryNames :
          /\ Exists(hist.pre, PosPath(n))
          /\ Exists(hist.pre, BackupEntryPath(n))
          /\ hist.pre[PosPath(n)] # hist.pre[BackupEntryPath(n)]
          /\ fs[PosPath(n)] = hist.pre[BackupEntryPath(n)]

BackupTree(f) == [n \in EntryNames |-> f[BackupEntryPath(n)]]

C36_BackupKeptUntilCopied ==
    /\ [][(ret'.op = "downgrade" /\ BackupTree(fs') # BackupTree(fs)) =>
             /\ pc = "dg_clean"
             /\ \A n \in EntryNames :
                   Exists(fs, BackupEntryPath(n)) =>
                       fs[PosPath(n)] = fs[BackupEntryPath(n)]]_vars
    /\ []((DowngradeReturned
              /\ ret.why \in {"no_backup", "busy", "clear", "no_dir", "copy"})
           => BackupTree(fs) = BackupTree(hist.pre))

\* a downgrade that raised while copying, after it had emptied the installed
\* directory, with the snapshot still in the backup directory
C36_Witness ==
    /\ DowngradeReturned
    /\ ret = Ret("downgrade", "BackupError", "copy")
    /\ ~BackupEmpty(fs)
    /\ PosTree(fs) # PosTree(hist.pre)
    /\ BackupTree(fs) = BackupTree(hist.pre)

\* C7: when a backup exists, the target runs and kill_process fails,
\* downgrade raises BackupError and no entry of the installed directory or
\* of the backup directory is deleted, added or changed.
C7_KillFailureLeavesTrees ==
    (DowngradeReturned /\ hist.killFailed) =>
        /\ ret = Ret("downgrade", "BackupError", "busy")
        /\ fs = hist.pre

C7_Witness ==
    /\ DowngradeReturned
    /\ hist.killFailed
    /\ backup_manager.has_backups
    /\ ~BackupEmpty(fs)
    /\ \E n \in EntryNames : Exists(fs, PosPath(n))
    /\ procRunning
====
